---- MODULE Spec2Model ----
(***************************************************************************)
(* eel-hole: the search index (initialize_index), the scored search        *)
(* (run_search) and the table-name autocomplete                            *)
(* (autocomplete_resource_names) of src/eel_hole/search.py.                *)
(*                                                                         *)
(* A Python str is a sequence of one-character strings.  Scores are fixed  *)
(* point: BM25F text scores in units of 1/2000 (Milli * twice the field    *)
(* boost), so that the boosts 0.5, 1.5 and 3.0 stay integers.              *)
(***************************************************************************)
EXTENDS Integers, Sequences, FiniteSets, TLC

VARIABLES
    resources,  \* the caller's live list of ResourceDisplay objects
    built,      \* history: the value of `resources` when initialize_index ran
    bpc,        \* where initialize_index is: "start", "adding", "commit", "ready", "failed"
    bi,         \* initialize_index: position of the `for resource in resources` loop
    writer,     \* documents added to the index writer, not yet committed
    segment,    \* committed documents of the index storage
    ix,         \* the index object the caller holds (NoIndex until it is returned)
    ix0,        \* history: the index as initialize_index returned it
    berr,       \* the position of the resource that made initialize_index raise, or 0
    calls,      \* per caller: the call in progress (pc, arguments, locals, result)
    config,     \* current_app.config["FEATURE_FLAGS"]: flag name -> value, or Missing
    session,    \* per browser session, the Flask session: flag name -> value, or Missing
    flag_call,  \* the last call of is_flag_enabled: its context, arguments and outcome
    last_set,   \* history: per session and flag, the v of the latest request with ?flag=v
    gate_call,  \* the last request of a route under require_feature_flag and its answer
    coerce_call,      \* a call of _coerce_flag_value: its input, and its outcome once made
    variant_config,   \* current_app.config["FEATURE_VARIANTS"]: feature name -> FeatureVariants
    session_variants, \* per browser session, session["variants"]: feature name -> variant
    variant_call,     \* the last call of get_variant: its request and its answer
    last_variant,     \* history: per session and feature, the variant the latest request
                      \* that gave one in its URL was answered with
    merge_call,       \* a call of merge_datapackages: its input, its outcome, the log
    users,            \* the users table: per user, the three consent columns
    clients,          \* per browser: its Flask session and its remember_token cookie
    privacy_call      \* the last request of the login and privacy routes, and its answer

bvars == <<built, bpc, bi, writer, segment, ix, ix0, berr>>
fvars == <<config, session, flag_call, last_set>>
vvars == <<variant_config, session_variants, variant_call, last_variant>>
pvars == <<users, clients, privacy_call>>
xvars == <<gate_call, coerce_call, vvars, merge_call, pvars>>
\* the variables among them that a gated request, a call of
\* _coerce_flag_value, a call of get_variant, a logout leave alone
notgate == <<coerce_call, vvars, merge_call, pvars>>
notcoerce == <<gate_call, vvars, merge_call, pvars>>
notvariant == <<gate_call, coerce_call, merge_call, pvars>>
notlogout == <<gate_call, coerce_call, variant_config, variant_call, merge_call, pvars>>
notmerge == <<gate_call, coerce_call, vvars, pvars>>
notprivacy == <<gate_call, coerce_call, vvars, merge_call>>
vars == <<resources, built, bpc, bi, writer, segment, ix, ix0, berr, calls, fvars, xvars>>

----------------------------------------------------------------------------
(* Characters and strings *)

LowerLetters == {"a", "b", "c", "d", "e", "f", "g", "h", "i", "j", "k", "l", "m", "n",
                 "o", "p", "r", "s", "t", "u", "v", "w", "x", "y"}
UpperLetters == {"A", "E", "F", "G", "L", "N", "O", "R", "S", "T", "U"}
Digits == {"0", "1", "2", "3", "4", "5", "6", "7", "8", "9"}
Chars == LowerLetters \cup UpperLetters \cup Digits \cup {"_", " ", ":", "<", ">", "/"}

\* str.lower() on one character
ToLower(c) == CASE c = "A" -> "a" [] c = "E" -> "e" [] c = "F" -> "f" [] c = "G" -> "g"
                [] c = "L" -> "l" [] c = "N" -> "n" [] c = "O" -> "o" [] c = "R" -> "r"
                [] c = "S" -> "s" [] c = "T" -> "t" [] c = "U" -> "u" [] OTHER -> c

\* str.lower()
Lower(s) == [i \in 1..Len(s) |-> ToLower(s[i])]

DigitChar(n) == CASE n = 0 -> "0" [] n = 1 -> "1" [] n = 2 -> "2" [] n = 3 -> "3"
                  [] n = 4 -> "4" [] n = 5 -> "5" [] n = 6 -> "6" [] n = 7 -> "7"
                  [] n = 8 -> "8" [] OTHER -> "9"

\* the list a comprehension builds, element by element
List(f) == <<>> \o f

\* s[a:b] of Python, 0-based, half open
Slice(s, a, b) == [i \in 1..(b - a) |-> s[a + i]]

\* s.startswith(p)
StartsWith(s, p) == Len(s) >= Len(p) /\ Slice(s, 0, Len(p)) = p

\* s.find(t, start): the least 0-based index >= start where t occurs, or -1
Find(s, t, start) ==
    LET hits == {k \in start..(Len(s) - Len(t)) : Slice(s, k, k + Len(t)) = t}
    IN  IF hits = {} THEN -1 ELSE CHOOSE k \in hits : \A j \in hits : k <= j

\* t in s
Contains(s, t) == Find(s, t, 0) # -1

RECURSIVE Concat(_)
\* "".join(parts)
Concat(parts) == IF parts = <<>> THEN <<>> ELSE Head(parts) \o Concat(Tail(parts))

RECURSIVE JoinSpace(_)
\* " ".join(parts)
JoinSpace(parts) ==
    IF parts = <<>> THEN <<>>
    ELSE IF Len(parts) = 1 THEN parts[1]
    ELSE parts[1] \o <<" ">> \o JoinSpace(Tail(parts))

RECURSIVE RunsFrom(_, _, _, _, _)
\* the maximal runs of characters of one non-zero class, left to right (how a
\* regular expression of the form [..]+|[..]+ tokenizes under findall)
RunsFrom(s, i, cur, acc, cls) ==
    IF i > Len(s) THEN (IF cur = <<>> THEN acc ELSE Append(acc, cur))
    ELSE LET c == s[i]
             k == cls[c]
             flushed == IF cur = <<>> THEN acc ELSE Append(acc, cur)
         IN  IF k = 0 THEN RunsFrom(s, i + 1, <<>>, flushed, cls)
             ELSE IF cur # <<>> /\ cls[cur[1]] = k
                  THEN RunsFrom(s, i + 1, Append(cur, c), acc, cls)
                  ELSE RunsFrom(s, i + 1, <<c>>, flushed, cls)

Runs(s, cls) == RunsFrom(s, 1, <<>>, <<>>, cls)

----------------------------------------------------------------------------
(* The analyzer of the name, description and columns fields *)

\* RegexTokenizer(r"[A-Za-z]+|[0-9]+"): letter runs and digit runs, never merged
AnalyzerClass == [c \in Chars |->
    IF c \in LowerLetters \cup UpperLetters THEN 1 ELSE IF c \in Digits THEN 2 ELSE 0]

RegexTokenizer(text) == Runs(text, AnalyzerClass)

\* StopFilter(): whoosh's default stop list
STOP_WORDS == {
    <<"a">>, <<"a","n">>, <<"a","n","d">>, <<"a","r","e">>, <<"a","s">>, <<"a","t">>,
    <<"b","e">>, <<"b","y">>, <<"c","a","n">>, <<"f","o","r">>, <<"f","r","o","m">>,
    <<"h","a","v","e">>, <<"i","f">>, <<"i","n">>, <<"i","s">>, <<"i","t">>,
    <<"m","a","y">>, <<"n","o","t">>, <<"o","f">>, <<"o","n">>, <<"o","r">>,
    <<"t","b","d">>, <<"t","h","a","t">>, <<"t","h","e">>, <<"t","h","i","s">>,
    <<"t","o">>, <<"u","s">>, <<"w","e">>, <<"w","h","e","n">>, <<"w","i","l","l">>,
    <<"w","i","t","h">>, <<"y","e","t">>, <<"y","o","u">>, <<"y","o","u","r">>}

\* StopFilter() drops stop words and tokens shorter than this
StopMinSize == 2

StopFilter(tokens) ==
    SelectSeq(tokens, LAMBDA t : Len(t) >= StopMinSize /\ t \notin STOP_WORDS)

Generator == <<"g","e","n","e","r","a","t","o","r">>
Generators == <<"g","e","n","e","r","a","t","o","r","s">>

\* whoosh.lang.porter.stem: words under three letters are left alone; step 1a
\* strips plurals.  The later steps (1b to 5) rewrite suffixes that no word of
\* this model's texts ends in, so they are the identity here.
stem(w) ==
    LET n == Len(w)
        EndsWith(suf) == n >= Len(suf) /\ Slice(w, n - Len(suf), n) = suf
    IN  IF n < 3 THEN w
        ELSE IF w[n] # "s" THEN w
        ELSE IF EndsWith(<<"s","s","e","s">>) THEN Slice(w, 0, n - 2)
        ELSE IF EndsWith(<<"i","e","s">>) THEN Slice(w, 0, n - 2)
        ELSE IF w[n - 1] # "s" THEN Slice(w, 0, n - 1)
        ELSE w

custom_stemmer(word) ==
    IF word \in {Generators, Generator} THEN Generator ELSE stem(word)

\* RegexTokenizer | LowercaseFilter | StopFilter | StemFilter(custom_stemmer)
Analyze(text) ==
    LET raw == RegexTokenizer(text)
        toks == StopFilter(List([i \in 1..Len(raw) |-> Lower(raw[i])]))
    IN  List([i \in 1..Len(toks) |-> custom_stemmer(toks[i])])

\* KEYWORD fields (package, tags) are split on whitespace and nothing else
KeywordClass == [c \in Chars |-> IF c = " " THEN 0 ELSE 1]

KeywordTokens(text) == Runs(text, KeywordClass)

----------------------------------------------------------------------------
(* initialize_index *)

\* the caller holds no index yet
NoIndex == [docs |-> <<>>, valid |-> FALSE]

RECURSIVE StripTagsFrom(_, _)
\* re.sub("<[^<]+?>", "", s): a "<", at least one character that is not "<",
\* then the first ">" that follows them; scanning resumes after each match
StripTagsFrom(s, i) ==
    IF i > Len(s) THEN <<>>
    ELSE LET ends == {j \in (i + 2)..Len(s) :
                        /\ s[i] = "<"
                        /\ s[j] = ">"
                        /\ \A k \in (i + 1)..(j - 1) : s[k] # "<"}
         IN  IF ends = {} THEN <<s[i]>> \o StripTagsFrom(s, i + 1)
             ELSE StripTagsFrom(s, (CHOOSE j \in ends : \A k \in ends : j <= k) + 1)

StripTags(s) == StripTagsFrom(s, 1)

\* s.strip("_")
StripUnderscores(s) ==
    LET keep == {i \in 1..Len(s) : s[i] # "_"}
    IN  IF keep = {} THEN <<>>
        ELSE LET lo == CHOOSE i \in keep : \A j \in keep : i <= j
                 hi == CHOOSE i \in keep : \A j \in keep : i >= j
             IN  Slice(s, lo - 1, hi)

\* s.split("_")[0]
FirstSegment(s) ==
    LET k == Find(s, <<"_">>, 0)
    IN  IF k = -1 THEN s ELSE Slice(s, 0, k)

Preliminary == <<"p","r","e","l","i","m","i","n","a","r","y">>
Out == <<"o","u","t">>

\* the first segment of the name as it stands: resource.name.split("_")[0]
TagsOfUnstripped(name) ==
    <<FirstSegment(name)>>
        \o (IF StartsWith(name, <<"_">>) THEN <<Preliminary>> ELSE <<>>)

\* the `tags` list of one resource name
TagsOf(name) ==
    <<FirstSegment(StripUnderscores(name))>>
        \o (IF StartsWith(name, <<"_">>) THEN <<Preliminary>> ELSE <<>>)

\* the attributes initialize_index reads; one that is missing raises AttributeError
ResourceAttrs == {"name", "package", "description", "columns"}
ColumnAttrs == {"name", "description"}

WellFormed(r) ==
    /\ ResourceAttrs \subseteq DOMAIN r
    /\ \A k \in 1..Len(r.columns) : ColumnAttrs \subseteq DOMAIN r.columns[k]

\* "".join(" ".join([col.name, col.description]) for col in resource.columns)
ColumnsText(cols) ==
    Concat([k \in 1..Len(cols) |-> JoinSpace(<<cols[k].name, cols[k].description>>)])

\* dataclasses.asdict(resource): a deep copy of the fields
AsDict(r) ==
    [name |-> r.name, package |-> r.package, description |-> r.description,
     columns |-> [k \in 1..Len(r.columns) |->
                    [name |-> r.columns[k].name,
                     description |-> r.columns[k].description]]]

\* writer.add_document(...): the posting data of one document.  Analyzed fields
\* keep their term sequences; stored fields keep the value as given.
Document(r) ==
    [name |-> r.name,
     nameTerms |-> Analyze(r.name),
     descriptionTerms |-> Analyze(StripTags(r.description)),
     columnsTerms |-> Analyze(ColumnsText(r.columns)),
     package |-> r.package,
     tags |-> JoinSpace(TagsOf(r.name)),
     tagsTerms |-> KeywordTokens(JoinSpace(TagsOf(r.name))),
     original_object |-> AsDict(r)]

----------------------------------------------------------------------------
(* run_search: the query *)

\* every variant with the weights of the default one
UniformFieldBoosts ==
    [default |-> [name |-> 3, description |-> 2, columns |-> 1],
     title_boost |-> [name |-> 3, description |-> 2, columns |-> 1],
     column_boost |-> [name |-> 3, description |-> 2, columns |-> 1]]

\* twice the field boosts of each variant
SEARCH_VARIANT_FIELD_BOOSTS ==
    [default |-> [name |-> 3, description |-> 2, columns |-> 1],
     title_boost |-> [name |-> 6, description |-> 2, columns |-> 1],
     column_boost |-> [name |-> 1, description |-> 2, columns |-> 6]]

\* SEARCH_VARIANT_FIELD_BOOSTS.get(search_method, default): never a KeyError
LookupBoostsOrDefault(search_method) ==
    [ok |-> TRUE,
     boosts |-> IF search_method \in DOMAIN SEARCH_VARIANT_FIELD_BOOSTS
                THEN SEARCH_VARIANT_FIELD_BOOSTS[search_method]
                ELSE SEARCH_VARIANT_FIELD_BOOSTS["default"]]

\* SEARCH_VARIANT_FIELD_BOOSTS[search_method]: KeyError on an unknown name
LookupBoosts(search_method) ==
    IF search_method \in DOMAIN SEARCH_VARIANT_FIELD_BOOSTS
    THEN [ok |-> TRUE, boosts |-> SEARCH_VARIANT_FIELD_BOOSTS[search_method]]
    ELSE [ok |-> FALSE, boosts |-> <<>>]

\* the fields MultifieldParser spreads an unqualified word over
TextFields == <<"name", "description", "columns">>

\* the indexed fields of the schema, by the name a query gives them
SchemaField ==
    (<<"n","a","m","e">> :> "name")
    @@ (<<"d","e","s","c","r","i","p","t","i","o","n">> :> "description")
    @@ (<<"c","o","l","u","m","n","s">> :> "columns")
    @@ (<<"p","a","c","k","a","g","e">> :> "package")
    @@ (<<"t","a","g","s">> :> "tags")

\* the terms of one field of one document
FieldTerms(doc, f) ==
    CASE f = "name" -> doc.nameTerms
      [] f = "description" -> doc.descriptionTerms
      [] f = "columns" -> doc.columnsTerms
      [] f = "package" -> KeywordTokens(doc.package)
      [] OTHER -> doc.tagsTerms

\* the field's analyzer applied to query text
FieldAnalyze(f, text) ==
    IF f \in {"package", "tags"} THEN KeywordTokens(text) ELSE Analyze(text)

\* the schema's field without a format: original_object=STORED
StoredOnlyFields == {<<"o","r","i","g","i","n","a","l","_","o","b","j","e","c","t">>}

\* parser.parse(raw_query) asks the field of a `field:text` word to process
\* the text; a STORED field has no format to do it with and raises Exception
ParseRaises(raw_query) ==
    LET words == KeywordTokens(raw_query)
    IN  \E w \in 1..Len(words) :
            LET k == Find(words[w], <<":">>, 0)
            IN  /\ k > 0
                /\ k + 1 < Len(words[w])
                /\ Slice(words[w], 0, k) \in StoredOnlyFields

\* one whitespace-separated word of the query: `field:text` on a schema field
\* is searched in that field with boost 1; any other word is searched in the
\* three text fields with the variant's boosts.  A word whose text analyzes to
\* several terms needs all of them in the field; one that analyzes to none
\* gives no alternative.
WordClause(word, boosts) ==
    LET k == Find(word, <<":">>, 0)
        fielded == k > 0 /\ Slice(word, 0, k) \in DOMAIN SchemaField
        alts == IF fielded
                THEN LET f == SchemaField[Slice(word, 0, k)]
                     IN  <<[field |-> f,
                            terms |-> FieldAnalyze(f, Slice(word, k + 1, Len(word))),
                            boost2 |-> 2]>>
                ELSE [j \in 1..Len(TextFields) |->
                        [field |-> TextFields[j],
                         terms |-> Analyze(word),
                         boost2 |-> boosts[TextFields[j]]]]
    IN  SelectSeq(alts, LAMBDA a : a.terms # <<>>)

\* parser.parse(raw_query): the words are joined by AND; words without
\* alternatives are dropped; the empty sequence is whoosh's NullQuery
ParseQuery(raw_query, boosts) ==
    LET words == KeywordTokens(raw_query)
        clauses == [w \in 1..Len(words) |-> WordClause(words[w], boosts)]
    IN  SelectSeq(clauses, LAMBDA c : c # <<>>)

AltMatches(doc, alt) ==
    \A k \in 1..Len(alt.terms) :
        \E j \in 1..Len(FieldTerms(doc, alt.field)) :
            FieldTerms(doc, alt.field)[j] = alt.terms[k]

\* the user's query matches a document: every word in at least one field
UserQueryMatches(doc, user_query) ==
    /\ user_query # <<>>
    /\ \A c \in 1..Len(user_query) :
          \E a \in 1..Len(user_query[c]) : AltMatches(doc, user_query[c][a])

----------------------------------------------------------------------------
(* run_search: scoring (whoosh's default BM25F, B = 0.75, K1 = 1.2) *)

RECURSIVE SumSeq(_)
SumSeq(xs) == IF xs = <<>> THEN 0 ELSE Head(xs) + SumSeq(Tail(xs))

\* 1000 * ln(n), rounded, for n = 1..64
LnMilli ==
    <<0, 693, 1099, 1386, 1609, 1792, 1946, 2079, 2197, 2303, 2398, 2485, 2565,
      2639, 2708, 2773, 2833, 2890, 2944, 2996, 3045, 3091, 3135, 3178, 3219,
      3258, 3296, 3332, 3367, 3401, 3434, 3466, 3497, 3526, 3555, 3584, 3611,
      3638, 3664, 3689, 3714, 3738, 3761, 3784, 3807, 3829, 3850, 3871, 3892,
      3912, 3932, 3951, 3970, 3989, 4007, 4025, 4043, 4060, 4078, 4094, 4111,
      4127, 4143, 4159>>

\* how often term t occurs in field f of the document
TermFreq(doc, f, t) ==
    Cardinality({j \in 1..Len(FieldTerms(doc, f)) : FieldTerms(doc, f)[j] = t})

\* the (field, term) pairs a query reads postings of
QueryPairs(user_query) ==
    UNION {UNION {{<<user_query[c][a].field, user_query[c][a].terms[k]>> :
                      k \in 1..Len(user_query[c][a].terms)} :
                  a \in 1..Len(user_query[c])} :
           c \in 1..Len(user_query)}

\* the collection statistics BM25F reads: document frequency of the term in
\* the field and the total length of the field over all documents
FieldStats(docs, f, t) ==
    [field |-> f, term |-> t,
     df |-> Cardinality({d \in 1..Len(docs) : TermFreq(docs[d], f, t) > 0}),
     total |-> SumSeq(List([d \in 1..Len(docs) |-> Len(FieldTerms(docs[d], f))]))]

\* the statistics of every (field, term) pair of the query
QueryStats(docs, user_query) ==
    {FieldStats(docs, p[1], p[2]) : p \in QueryPairs(user_query)}

StatsOf(stats, f, t) == CHOOSE st \in stats : st.field = f /\ st.term = t

\* 1000 * idf, idf = ln(doc_count / (doc_frequency + 1)) + 1
IdfMilli(n, df) == 1000 + LnMilli[n] - LnMilli[df + 1]

\* 1000 * bm25(idf, tf, fl, avgfl) = idf * tf * (K1 + 1) / (tf + K1 * ((1 - B) + B * fl / avgfl))
\* with avgfl = total / n, all brought over one denominator
Bm25Milli(n, st, tf, fl) ==
    (IdfMilli(n, st.df) * 22 * tf * st.total)
        \div (10 * tf * st.total + 3 * st.total + 9 * fl * n)

\* the score of one term in one field of one document, before the boost;
\* text fields are scored by BM25F, the unscorable KEYWORD fields by the
\* term's frequency
TermMilli(docs, d, f, t, st) ==
    LET tf == TermFreq(docs[d], f, t)
    IN  IF tf = 0 THEN 0
        ELSE IF f \in {"package", "tags"} THEN 1000 * tf
        ELSE Bm25Milli(Len(docs), st, tf, Len(FieldTerms(docs[d], f)))

\* the combined score of one alternative of a word: the sum over its terms
AltMilli(docs, d, alt, stats) ==
    SumSeq(List([k \in 1..Len(alt.terms) |->
              TermMilli(docs, d, alt.field, alt.terms[k],
                        StatsOf(stats, alt.field, alt.terms[k]))]))

\* the score of the user's query on a matching document, in units of 1/2000:
\* every word adds, for each field it matches in, boost * score
TextScore(docs, d, user_query, stats) ==
    SumSeq(List([c \in 1..Len(user_query) |->
        SumSeq(List([a \in 1..Len(user_query[c]) |->
            IF AltMatches(docs[d], user_query[c][a])
            THEN user_query[c][a].boost2 * AltMilli(docs, d, user_query[c][a], stats)
            ELSE 0]))]))

\* twice the boost of Term("tags", "out", boost=10.0) and the size of the one
\* of Term("tags", "preliminary", boost=-10.0)
TagBoost2 == 20

\* no tag adjustment at all
TagScoreNone(doc) == 0

\* Or([out_boost, preliminary_penalty]) on one document, in units of 1/2000
TagScore(doc) ==
    1000 * TagBoost2 * TermFreq(doc, "tags", Out)
        - 1000 * TagBoost2 * TermFreq(doc, "tags", Preliminary)

----------------------------------------------------------------------------
(* run_search: collecting the hits *)

\* limit=50 of searcher.search
SearchLimit == 50

Pudl == <<"p","u","d","l">>

\* no filter, whatever search_packages says
AllowedAlways(doc, search_packages) == TRUE

\* filter=Term("package", "pudl") when search_packages == "pudl_only"
Allowed(doc, search_packages) ==
    search_packages = "pudl_only" => TermFreq(doc, "package", Pudl) > 0

\* Or(user_query, tag terms): a tag alone makes a document match
MatchesOrTags(doc, user_query) ==
    \/ UserQueryMatches(doc, user_query)
    \/ TermFreq(doc, "tags", Out) + TermFreq(doc, "tags", Preliminary) > 0

\* AndMaybe(user_query, Or([out_boost, preliminary_penalty])): the documents
\* of the first query, the second one only adds to their score
Matches(doc, user_query) == UserQueryMatches(doc, user_query)

\* the documents the query matches, in document order, each with its
\* combined score
Scores(docs, user_query) ==
    LET stats == QueryStats(docs, user_query)
        all == List([d \in 1..Len(docs) |->
                    IF Matches(docs[d], user_query)
                    THEN [docnum |-> d, matched |-> TRUE,
                          score |-> TextScore(docs, d, user_query, stats)
                                        + TagScore(docs[d])]
                    ELSE [docnum |-> d, matched |-> FALSE, score |-> 0]])
        hits == SelectSeq(all, LAMBDA h : h.matched)
    IN  List([k \in 1..Len(hits) |-> [docnum |-> hits[k].docnum, score |-> hits[k].score]])

\* the `limit` best of the hits: descending score, and among equal scores
\* ascending document number
TopHits(hits, limit) ==
    LET rank == List([x \in 1..Len(hits) |->
                    Cardinality({y \in 1..Len(hits) :
                        \/ hits[y].score > hits[x].score
                        \/ /\ hits[y].score = hits[x].score
                           /\ hits[y].docnum < hits[x].docnum})])
        n == IF Len(hits) < limit THEN Len(hits) ELSE limit
    IN  List([k \in 1..n |-> hits[CHOOSE x \in 1..Len(hits) : rank[x] = k - 1]])

\* the filter applied to the best `limit` hits instead of to the candidates
CollectPostFilter(docs, user_query, search_packages) ==
    SelectSeq(TopHits(Scores(docs, user_query), SearchLimit),
              LAMBDA h : Allowed(docs[h.docnum], search_packages))

\* searcher.search(query_with_boosts, [filter=...,] limit=50)
Collect(docs, user_query, search_packages) ==
    TopHits(SelectSeq(Scores(docs, user_query),
                      LAMBDA h : Allowed(docs[h.docnum], search_packages)),
            SearchLimit)

\* hit["original_object"] read back from the caller's live resource
HitObjectLive(docs, h, live) ==
    IF h.docnum <= Len(live) /\ WellFormed(live[h.docnum])
    THEN AsDict(live[h.docnum]) ELSE docs[h.docnum].original_object

\* hit["original_object"]: the stored field of the hit's document
HitObject(docs, h, live) == docs[h.docnum].original_object

\* [hit["original_object"] for hit in results]
HitObjects(docs, hits, live) ==
    List([k \in 1..Len(hits) |-> HitObject(docs, hits[k], live)])

\* run_search as one function: the outcome of the call on a given index
RunSearch(index, raw_query, search_method, search_packages, live) ==
    LET fb == LookupBoosts(search_method)
    IN  IF ~fb.ok THEN [raised |-> "KeyError", value |-> <<>>]
        ELSE IF ParseRaises(raw_query) THEN [raised |-> "Exception", value |-> <<>>]
        ELSE [raised |-> "",
              value |-> HitObjects(index.docs,
                                   Collect(index.docs, ParseQuery(raw_query, fb.boosts),
                                           search_packages),
                                   live)]

----------------------------------------------------------------------------
(* autocomplete_resource_names *)

\* scores are exact fractions [num, den], den > 0
Frac(n, d) == [num |-> n, den |-> d]

FracAdd(x, y) == Frac(x.num * y.den + y.num * x.den, x.den * y.den)

FracGe(x, y) == x.num * y.den >= y.num * x.den

FracGt(x, y) == x.num * y.den > y.num * x.den

FracMax(x, y) == IF FracGe(x, y) THEN x ELSE y

Max(a, b) == IF a >= b THEN a ELSE b

\* TOKEN_RE = re.compile(r"[a-z0-9]+")
TokenClass == [c \in Chars |-> IF c \in LowerLetters \cup Digits THEN 1 ELSE 0]

\* the runs of letters only: [a-z]+
LetterRuns(s) ==
    Runs(s, [c \in Chars |-> IF c \in LowerLetters THEN 1 ELSE 0])

TOKEN_RE_findall(s) == Runs(s, TokenClass)

\* s.strip(): whitespace off both ends
Strip(s) ==
    LET keep == {i \in 1..Len(s) : s[i] # " "}
    IN  IF keep = {} THEN <<>>
        ELSE LET lo == CHOOSE i \in keep : \A j \in keep : i <= j
                 hi == CHOOSE i \in keep : \A j \in keep : i >= j
             IN  Slice(s, lo - 1, hi)

NamePrefix == <<"n","a","m","e",":">>

\* the query stripped and lowercased, a leading "name:" left in place
PrepareQueryKeepPrefix(raw_query) == Lower(Strip(raw_query))

\* the query stripped but not lowercased
PrepareQueryCaseSensitive(raw_query) ==
    LET query == Strip(raw_query)
    IN  IF query = <<>> THEN <<>>
        ELSE IF StartsWith(query, <<"n","a","m","e",":">>)
             THEN Strip(Slice(query, 5, Len(query)))
             ELSE query

\* lines 99-105: the query after strip, lower and the removal of "name:";
\* the empty string makes the function return []
PrepareQuery(raw_query) ==
    LET query == Lower(Strip(raw_query))
    IN  IF query = <<>> THEN <<>>
        ELSE IF StartsWith(query, NamePrefix)
             THEN Strip(Slice(query, Len(NamePrefix), Len(query)))
             ELSE query

RECURSIVE CommonRun(_, _, _, _, _, _)
\* how far a[i:] and b[j:] agree, inside a[:ahi] and b[:bhi] (0-based)
CommonRun(a, b, i, j, ahi, bhi) ==
    IF i < ahi /\ j < bhi /\ a[i + 1] = b[j + 1]
    THEN 1 + CommonRun(a, b, i + 1, j + 1, ahi, bhi) ELSE 0

\* SequenceMatcher.find_longest_match without junk: the longest block, the
\* one earliest in a, and of those the one earliest in b
FindLongestMatch(a, b, alo, ahi, blo, bhi) ==
    LET run == [p \in (alo..(ahi - 1)) \X (blo..(bhi - 1)) |->
                    CommonRun(a, b, p[1], p[2], ahi, bhi)]
        best == CHOOSE p \in DOMAIN run :
                    \A q \in DOMAIN run :
                        \/ run[p] > run[q]
                        \/ /\ run[p] = run[q]
                           /\ \/ p[1] < q[1]
                              \/ p[1] = q[1] /\ p[2] <= q[2]
    IN  IF DOMAIN run = {} THEN [i |-> alo, j |-> blo, k |-> 0]
        ELSE [i |-> best[1], j |-> best[2], k |-> run[best]]

RECURSIVE MatchedChars(_, _, _, _, _, _)
\* the total size of SequenceMatcher.get_matching_blocks(): the longest block,
\* then the same to its left and to its right
MatchedChars(a, b, alo, ahi, blo, bhi) ==
    LET m == FindLongestMatch(a, b, alo, ahi, blo, bhi)
    IN  IF m.k = 0 THEN 0
        ELSE m.k + MatchedChars(a, b, alo, m.i, blo, m.j)
                 + MatchedChars(a, b, m.i + m.k, ahi, m.j + m.k, bhi)

\* SequenceMatcher(a=a, b=b).ratio() = 2 * matches / (len(a) + len(b)), 1 when both are empty
Ratio(a, b) ==
    IF Len(a) + Len(b) = 0 THEN Frac(1, 1)
    ELSE Frac(2 * MatchedChars(a, b, 0, Len(a), 0, Len(b)), Len(a) + Len(b))

\* lines 119-124: the best of the substring score, the normalized-substring
\* score and the similarity ratio
BaseScore(query, normalized_query, name_lc, normalized_name) ==
    LET score == IF Contains(name_lc, query)
                 THEN FracAdd(Frac(1, 1), Frac(Len(query), Max(Len(name_lc), 1)))
                 ELSE IF normalized_query # <<>> /\ Contains(normalized_name, normalized_query)
                 THEN FracAdd(Frac(19, 20),
                              Frac(Len(normalized_query), Max(Len(normalized_name), 1)))
                 ELSE Frac(0, 1)
    IN  FracMax(score, Ratio(query, name_lc))

RECURSIVE InOrderFrom(_, _, _, _)
\* lines 132-139: every token found at or after last_index + 1, each search
\* starting one past the start of the previous token's match
InOrderFrom(tokens, k, name_lc, last_index) ==
    IF k > Len(tokens) THEN TRUE
    ELSE LET token_index == IF last_index + 1 > Len(name_lc) THEN -1
                            ELSE Find(name_lc, tokens[k], last_index + 1)
         IN  IF token_index = -1 THEN FALSE
             ELSE InOrderFrom(tokens, k + 1, name_lc, token_index)

\* lines 127-141: the token overlap share and the 0.4 for tokens in order
TokenBonus(query_tokens, name_lc) ==
    IF query_tokens = <<>> THEN Frac(0, 1)
    ELSE LET overlap == Cardinality({k \in 1..Len(query_tokens) :
                                        Contains(name_lc, query_tokens[k])})
         IN  FracAdd(Frac(overlap, Len(query_tokens)),
                     IF InOrderFrom(query_tokens, 1, name_lc, -1)
                     THEN Frac(2, 5) ELSE Frac(0, 1))

\* lines 112-141: the score of one resource name
NameScore(query, name) ==
    LET query_tokens == TOKEN_RE_findall(query)
        name_lc == Lower(name)
    IN  FracAdd(BaseScore(query, Concat(query_tokens), name_lc,
                          Concat(TOKEN_RE_findall(name_lc))),
                TokenBonus(query_tokens, name_lc))

\* the code point order of the characters of the model
CharOrder ==
    <<" ", "/", "0", "1", "2", "3", "4", "5", "6", "7", "8", "9", ":", "<", ">",
      "A", "E", "F", "G", "L", "N", "O", "R", "S", "T", "U", "_", "a", "b", "c", "d", "e", "f", "g", "h", "i", "j", "k", "l", "m",
      "n", "o", "p", "r", "s", "t", "u", "v", "w", "x", "y">>

Ord(c) == CHOOSE k \in 1..Len(CharOrder) : CharOrder[k] = c

RECURSIVE StrLess(_, _)
\* a < b on Python strings
StrLess(a, b) ==
    IF b = <<>> THEN FALSE
    ELSE IF a = <<>> THEN TRUE
    ELSE IF a[1] # b[1] THEN Ord(a[1]) < Ord(b[1])
    ELSE StrLess(Tail(a), Tail(b))

\* scored.sort(key=lambda item: (-item[0], item[1])): descending score, then
\* ascending name; the sort is stable
SortScored(scored) ==
    LET Before(x, y) ==
            \/ FracGt(scored[x].score, scored[y].score)
            \/ /\ ~FracGt(scored[y].score, scored[x].score)
               /\ \/ StrLess(scored[x].name, scored[y].name)
                  \/ scored[x].name = scored[y].name /\ x < y
        rank == List([x \in 1..Len(scored) |->
                    Cardinality({y \in 1..Len(scored) : Before(y, x)})])
    IN  List([k \in 1..Len(scored) |->
            scored[CHOOSE x \in 1..Len(scored) : rank[x] = k - 1]])

\* no cut at all
TruncateNothing(xs, limit) == xs

\* xs[:limit] of Python: a negative limit counts from the end
Truncate(xs, limit) ==
    IF limit >= 0 THEN Slice(xs, 0, IF limit < Len(xs) THEN limit ELSE Len(xs))
    ELSE Slice(xs, 0, Max(Len(xs) + limit, 0))

\* the kept names in the order of the resources, cut
SuggestionsUnsorted(scored, limit) ==
    LET top == Truncate(scored, limit)
    IN  List([k \in 1..Len(top) |-> top[k].name])

\* lines 146-147
Suggestions(scored, limit) ==
    LET top == Truncate(SortScored(scored), limit)
    IN  List([k \in 1..Len(top) |-> top[k].name])

\* a candidate is kept only above min_score
ScoreResourceStrict(scored, query, name, min_score) ==
    IF FracGt(NameScore(query, name), min_score)
    THEN Append(scored, [score |-> NameScore(query, name), name |-> name])
    ELSE scored

\* lines 143-144: one turn of the loop over the resources
ScoreResource(scored, query, name, min_score) ==
    IF FracGe(NameScore(query, name), min_score)
    THEN Append(scored, [score |-> NameScore(query, name), name |-> name])
    ELSE scored

RECURSIVE ScoreAll(_, _, _, _)
ScoreAll(names, k, query, min_score) ==
    IF k = 0 THEN <<>>
    ELSE ScoreResource(ScoreAll(names, k - 1, query, min_score), query, names[k], min_score)

\* autocomplete_resource_names as one function of the resource names
Autocomplete(names, raw_query, limit, min_score) ==
    IF PrepareQuery(raw_query) = <<>> THEN <<>>
    ELSE Suggestions(ScoreAll(names, Len(names), PrepareQuery(raw_query), min_score), limit)

----------------------------------------------------------------------------
(* The inputs: resources, catalogs, queries *)

Ferc == <<"f","e","r","c">>

Col(n, d) == [name |-> n, description |-> d]

Res(n, p, d, cols) == [name |-> n, package |-> p, description |-> d, columns |-> cols]

\* out_gen: matches "gen" in its name only
ResOutGen ==
    Res(<<"o","u","t","_","g","e","n">>, Pudl,
        <<"<","b",">","t","a","b","<","/","b",">">>,
        <<Col(<<"i","d">>, <<"y","r">>)>>)

\* out_xx: matches "gen" in its columns only
ResOutXx ==
    Res(<<"o","u","t","_","x","x">>, Pudl, <<"t","a","b">>,
        <<Col(<<"g","e","n">>, <<"y","r">>)>>)

\* _out_gen: tagged out and preliminary
ResPrelimOutGen ==
    Res(<<"_","o","u","t","_","g","e","n">>, Pudl, <<"t","a","b">>, <<>>)

\* raw_gen: another package, no out tag; its two columns run together ("id nrgen ")
ResRawGen ==
    Res(<<"r","a","w","_","g","e","n">>, Ferc, <<>>,
        <<Col(<<"i","d">>, <<"n","r">>), Col(<<"g","e","n">>, <<>>)>>)

\* _raw_x1: preliminary, matches "gen" after lowercasing, stop words and stemming
ResPrelimRaw ==
    Res(<<"_","r","a","w","_","x","1">>, Ferc,
        <<"t","h","e"," ","G","e","n","s">>,
        <<Col(<<"G","e","n">>, <<"g","e","n">>)>>)

\* a name of underscores only
ResUnderscores == Res(<<"_","_">>, Pudl, <<"g","e","n">>, <<>>)

\* a resource without a description attribute
ResNoDescription ==
    [name |-> <<"o","u","t","_","b","a","d">>, package |-> Pudl,
     columns |-> <<Col(<<"i","d">>, <<"y","r">>)>>]

\* a resource with a column that has no description attribute
ResBadColumn ==
    Res(<<"r","a","w","_","b","a","d">>, Pudl, <<"g","e","n">>,
        <<Col(<<"i","d">>, <<"y","r">>), [name |-> <<"g","e","n">>]>>)

Templates ==
    {ResOutGen, ResOutXx, ResPrelimOutGen, ResRawGen, ResPrelimRaw, ResUnderscores,
     ResNoDescription, ResBadColumn}


\* the longest catalog of templates
MaxRes == 2

\* the catalogs: every list of up to MaxRes templates with different names
Catalogs ==
    {c \in UNION {[1..n -> Templates] : n \in 0..MaxRes} :
        \A i, j \in 1..Len(c) : c[i].name = c[j].name => i = j}

\* the most generated resources of a large catalog
MaxPad == 53

\* the i-th generated resource: all match "gen" in the description, every
\* third one twice; the first two are of another package; every fourth has no
\* out tag and every seventh is preliminary
PadResource(i) ==
    Res((IF i % 7 = 0 THEN <<"_">> ELSE <<>>)
            \o (IF i % 4 = 1 THEN <<"r","a","w">> ELSE <<"o","u","t">>)
            \o <<"_","p", DigitChar(i \div 10), DigitChar(i % 10)>>,
        IF i <= 2 THEN Ferc ELSE Pudl,
        IF i % 3 = 0 THEN <<"g","e","n"," ","g","e","n">> ELSE <<"g","e","n">>,
        <<>>)

\* the large catalogs: around SearchLimit generated resources, with a
\* template before or after them
BigCatalogs ==
    {pre \o [i \in 1..k |-> PadResource(i)] \o post :
        pre \in {<<>>, <<ResPrelimOutGen>>, <<ResRawGen>>},
        post \in {<<>>, <<ResOutGen>>, <<ResPrelimRaw>>},
        k \in (SearchLimit - 1)..MaxPad}

Queries ==
    {<<"g","e","n">>,
     <<"G","e","n","s">>,
     <<"n","a","m","e",":","g","e","n">>,
     <<"t","h","e"," ","g","e","n">>,
     <<"t","h","e">>,
     <<"o","u","t"," ","y","r">>,
     <<"o","r","i","g","i","n","a","l","_","o","b","j","e","c","t",":","g","e","n">>}

SearchMethods == {"default", "title_boost", "column_boost", "bogus"}

SearchPackages == {"pudl_only", "all"}

AcQueries ==
    {<<"g","e","n">>,
     <<"n","a","m","e",":","G","e","n">>,
     <<"o","u","t"," ","g","e","n">>,
     <<" "," ">>,
     <<"n","a","m","e",":"," ">>}

AcLimits == {-1, 1, 8}

AcMinScores == {Frac(9, 20), Frac(3, 2)}

Callers == {"c1", "c2"}

----------------------------------------------------------------------------
(* The state machine *)

Idle ==
    [pc |-> "idle", op |-> "", raw_query |-> <<>>, search_method |-> "",
     search_packages |-> "", limit |-> 0, min_score |-> Frac(0, 1),
     boosts |-> SEARCH_VARIANT_FIELD_BOOSTS["default"], hits |-> <<>>,
     query |-> <<>>, i |-> 0, scored |-> <<>>, raised |-> "", value |-> <<>>]

\* a call that returned or raised
Finished == {"done", "raised"}

\* Python values that feature flags take: booleans, integers, strings; Missing
\* stands for a key that a dict or the query string does not have
PyBool(b) == [t |-> "bool", b |-> b, n |-> 0, s |-> <<>>]

PyInt(n) == [t |-> "int", b |-> FALSE, n |-> n, s |-> <<>>]

PyStr(s) == [t |-> "str", b |-> FALSE, n |-> 0, s |-> s]

Missing == [t |-> "missing", b |-> FALSE, n |-> 0, s |-> <<>>]

\* values of other types: None, 1.0, [] and {}
PyNone == [t |-> "NoneType", b |-> FALSE, n |-> 0, s |-> <<>>]

PyFloat(n) == [t |-> "float", b |-> FALSE, n |-> n, s |-> <<>>]

PyList == [t |-> "list", b |-> FALSE, n |-> 0, s |-> <<>>]

PyDict == [t |-> "dict", b |-> FALSE, n |-> 0, s |-> <<>>]

\* the flag the application uses, and one that no config names
FlagNames == {"ferc_enabled", "unknown"}

\* config.py:9-11: FEATURE_FLAGS has the key ferc_enabled
ConfiguredFlags == {"ferc_enabled"}

\* config.py:10: the value is a comparison, a bool
ConfigValues == {PyBool(TRUE), PyBool(FALSE)}

\* FEATURE_FLAGS as config.py makes it, for each value of FEATURE_FERC_ENABLED
Configs ==
    {[f \in FlagNames |-> IF f \in ConfiguredFlags THEN v ELSE Missing] : v \in ConfigValues}

\* FEATURE_FERC_ENABLED not set: "false".lower() == "true"
BaseConfig == [f \in FlagNames |-> IF f \in ConfiguredFlags THEN PyBool(FALSE) ELSE Missing]

\* the browser sessions
SessionIds == {"s1", "s2"}

\* a Flask session without keys
EmptySession == [f \in FlagNames |-> Missing]

\* no call of is_flag_enabled yet
NoFlagCall ==
    [sid |-> "", flag_name |-> "", ctx |-> FALSE, args |-> EmptySession,
     raised |-> "", value |-> Missing]

InitFlagsWith(configs) ==
    /\ config \in configs
    /\ session = [sid \in SessionIds |-> EmptySession]
    /\ flag_call = NoFlagCall
    /\ last_set = [sid \in SessionIds |-> EmptySession]

InitIndexWith(catalogs) ==
    /\ resources \in catalogs
    /\ built = <<>>
    /\ bpc = "start"
    /\ bi = 0
    /\ writer = <<>>
    /\ segment = <<>>
    /\ ix = NoIndex
    /\ ix0 = NoIndex
    /\ berr = 0
    /\ calls = [c \in Callers |-> Idle]

\* feature names and variants are strings
Foo == <<"f","o","o">>

Bar == <<"b","a","r">>

Baz == <<"b","a","z">>

Default == <<"d","e","f","a","u","l","t">>

\* feature_variants.py:10-13: the dataclass FeatureVariants
FeatureVariants(default, variants) == [default |-> default, variants |-> variants]

\* test_feature_variants.py:13-16: the FEATURE_VARIANTS of the tests
TestVariantConfig ==
    [f \in {Foo, Bar} |->
        IF f = Foo THEN FeatureVariants(Default, {<<"a">>, <<"b">>, Default})
        ELSE FeatureVariants(Default, {<<"A">>, <<"B">>, Default})]

\* a config whose defaults are not among the variants
OffVariantConfig ==
    [f \in {Foo, Bar} |->
        IF f = Foo THEN FeatureVariants(<<"o","f","f">>, {<<"a">>, <<"b">>})
        ELSE FeatureVariants(<<"o","f","f">>, {<<"A">>, <<"B">>})]

VariantConfigs == {TestVariantConfig, OffVariantConfig}

\* the feature names asked for: two of the config, one unknown to it
FeatureNames == {Foo, Bar, Baz}

\* session["variants"] absent: no feature has an entry
NoVariants == [f \in {Foo, Bar} |-> Missing]

\* no call of get_variant yet
NoVariantCall ==
    [sid |-> "", feature_name |-> <<>>, param |-> Missing, status |-> "",
     value |-> Missing]

InitVariantsWith(configs) ==
    /\ variant_config \in configs
    /\ session_variants = [sid \in SessionIds |-> NoVariants]
    /\ variant_call = NoVariantCall
    /\ last_variant = [sid \in SessionIds |-> NoVariants]

\* no call of merge_datapackages
NoMergeCall ==
    [datapackages |-> <<>>, pc |-> "", raised |-> "", value |-> <<>>,
     warnings |-> <<>>]

\* no call of _coerce_flag_value
NoCoerceCall == [input |-> Missing, pc |-> "", raised |-> "", value |-> Missing]

\* no request of a gated route yet
NoGateCall ==
    [sid |-> "", flag_name |-> "", value |-> <<>>, args |-> EmptySession,
     enabled |-> Missing, status |-> "", handler_ran |-> FALSE]

\* the users of the users table, and the browsers that send requests
UserIds == {"u1", "u2"}
ClientIds == {"b1"}

\* flask_login.AnonymousUserMixin: nobody is logged in
Anonymous == "anonymous"

\* __init__.py:246-250, 256, 301, 322, 349, 362, 404: the paths of the routes
HomePath == <<"/">>
CallbackPath == <<"/", "c", "a", "l", "l", "b", "a", "c", "k">>
LogoutPath == <<"/", "l", "o", "g", "o", "u", "t">>
PrivacyPolicyPath == <<"/", "p", "r", "i", "v", "a", "c", "y", "-", "p", "o", "l", "i", "c", "y">>
PrivacySettingsPath == <<"/", "p", "r", "i", "v", "a", "c", "y", "-", "s", "e", "t", "t", "i", "n", "g", "s">>
SearchPath == <<"/", "s", "e", "a", "r", "c", "h">>
DismissPath == <<"/", "d", "i", "s", "m", "i", "s", "s", "-", "n", "o", "t", "i", "f", "i", "c", "a", "t", "i", "o", "n">>

\* __init__.py:252: the prefix that check_for_privacy_policy lets through
StaticPrefix == <<"/", "s", "t", "a", "t", "i", "c">>

\* a file of the static folder, a path that only begins like the static
\* folder, and a path of no route
StaticFilePath == StaticPrefix \o <<"/", "a", ".", "c", "s", "s">>
StaticLookalikePath == StaticPrefix \o <<"k", "y">>
UnknownPath == <<"/", "x">>

\* __init__.py:337-342: the logout URL of Auth0, outside the application
Auth0LogoutUrl == <<"h", "t", "t", "p", "s", ":", "/", "/", "a", "u", "t", "h", "0", "/", "v", "2", "/", "l", "o", "g", "o", "u", "t">>

\* a URL: its path, its query string, and the next_url argument url_for
\* put into it (werkzeug encodes the argument, request.args decodes it)
Url(path, query) == [path |-> path, query |-> query, has_next |-> FALSE, next_url |-> <<>>]
NoLocation == Url(<<>>, <<>>)

\* a Flask session without keys, a browser without cookies
EmptyClientSession == [user_id |-> Anonymous, beta_notification_dismissed |-> FALSE]
NoCookies == [session |-> EmptyClientSession, remember_token |-> Anonymous]

\* models.py:22-24: the consent columns of a new user (server_default false)
NewUser ==
    [accepted_privacy_policy |-> FALSE, do_individual_outreach |-> FALSE,
     send_newsletter |-> FALSE]

\* a request without a form
NoForm ==
    [accept_privacy_policy |-> Missing, do_individual_outreach |-> Missing,
     send_newsletter |-> Missing, next_url |-> Missing]

\* no request of the login and privacy routes yet
NoPrivacyCall ==
    [client |-> "", method |-> "", path |-> <<>>, query |-> <<>>, form |-> NoForm,
     user |-> Anonymous, accepted |-> FALSE, followed_from |-> <<>>,
     bounced |-> FALSE, status |-> 0,
     location |-> NoLocation, handler |-> "", raised |-> ""]

InitPrivacy ==
    /\ users = [u \in UserIds |-> NewUser]
    /\ clients = [b \in ClientIds |-> NoCookies]
    /\ privacy_call = NoPrivacyCall

\* the subsystems besides the index and the flags, before any request
InitIdle ==
    /\ gate_call = NoGateCall
    /\ coerce_call = NoCoerceCall
    /\ InitVariantsWith({TestVariantConfig})
    /\ merge_call = NoMergeCall
    /\ InitPrivacy

InitWith(catalogs) ==
    InitIndexWith(catalogs) /\ InitFlagsWith({BaseConfig}) /\ InitIdle

Init == InitWith(Catalogs)

\* lines 50-67: the storage, the schema, the index and its writer
CreateIndex ==
    /\ bpc = "start"
    /\ bpc' = "adding"
    /\ bi' = 1
    /\ built' = resources
    /\ writer' = <<>>
    /\ UNCHANGED <<resources, segment, ix, ix0, berr, calls, fvars, xvars>>

\* a malformed resource is skipped
AddResultSkip(w, r) ==
    IF WellFormed(r) THEN [raised |-> FALSE, writer |-> Append(w, Document(r))]
    ELSE [raised |-> FALSE, writer |-> w]

\* lines 70-85: one turn of the loop; a missing attribute raises
AddResult(w, r) ==
    IF WellFormed(r) THEN [raised |-> FALSE, writer |-> Append(w, Document(r))]
    ELSE [raised |-> TRUE, writer |-> w]

AddDocument ==
    /\ bpc = "adding"
    /\ bi <= Len(resources)
    /\ LET res == AddResult(writer, resources[bi])
       IN  IF res.raised
           THEN /\ bpc' = "failed"
                /\ berr' = bi
                /\ UNCHANGED <<bi, writer>>
           ELSE /\ writer' = res.writer
                /\ bi' = bi + 1
                /\ UNCHANGED <<bpc, berr>>
    /\ UNCHANGED <<resources, built, segment, ix, ix0, calls, fvars, xvars>>

\* line 87: writer.commit()
Commit ==
    /\ bpc = "adding"
    /\ bi > Len(resources)
    /\ segment' = writer
    /\ bpc' = "commit"
    /\ UNCHANGED <<resources, built, bi, writer, ix, ix0, berr, calls, fvars, xvars>>

\* line 89: return ix
ReturnIndex ==
    /\ bpc = "commit"
    /\ ix' = [docs |-> segment, valid |-> TRUE]
    /\ ix0' = ix'
    /\ bpc' = "ready"
    /\ UNCHANGED <<resources, built, bi, writer, segment, berr, calls, fvars, xvars>>


\* how many of the first resources of the list the caller may change
MaxMutate == 1

NewPrefix == <<"n","e","w","_">>

\* the caller renames one of its resource objects after the index is built
MutateResource ==
    /\ bpc = "ready"
    /\ resources = built
    /\ \A c \in Callers : calls[c].pc = "idle"
    /\ \E i \in 1..MaxMutate :
          /\ i <= Len(resources)
          /\ resources' = [resources EXCEPT ![i].name = NewPrefix \o @]
    /\ UNCHANGED <<built, bpc, bi, writer, segment, ix, ix0, berr, calls, fvars, xvars>>

\* run_search(ix, raw_query, search_method, search_packages) is called with
\* arguments of the given sets
StartSearchFrom(c, queries, methods, packages) ==
    /\ bpc = "ready"
    /\ calls[c].pc = "idle"
    /\ \E q \in queries, m \in methods, p \in packages :
          calls' = [calls EXCEPT ![c] =
                       [Idle EXCEPT !.pc = "rs_boosts", !.op = "run_search",
                                    !.raw_query = q, !.search_method = m,
                                    !.search_packages = p]]
    /\ UNCHANGED <<resources, bvars, fvars, xvars>>

StartSearch(c) == StartSearchFrom(c, Queries, SearchMethods, SearchPackages)

\* line 157
SearchBoosts(c) ==
    /\ calls[c].pc = "rs_boosts"
    /\ LET fb == LookupBoosts(calls[c].search_method)
       IN  calls' = [calls EXCEPT ![c] =
                        IF fb.ok THEN [@ EXCEPT !.pc = "rs_search", !.boosts = fb.boosts]
                        ELSE [@ EXCEPT !.pc = "raised", !.raised = "KeyError"]]
    /\ UNCHANGED <<resources, bvars, fvars, xvars>>

\* the searcher deletes the documents it returned
IndexAfterSearchDropsHits(index, hits) ==
    [index EXCEPT !.docs = SelectSeq(index.docs,
        LAMBDA d : \A k \in 1..Len(hits) : index.docs[hits[k].docnum] # d)]

\* lines 159-183 only read the index: the searcher leaves it as it was
IndexAfterSearch(index, hits) == index

\* lines 159-174: the searcher, the parsed query, the search; nothing in
\* run_search catches what parser.parse raises
SearchCollect(c) ==
    /\ calls[c].pc = "rs_search"
    /\ calls' = [calls EXCEPT ![c] =
                    IF ParseRaises(calls[c].raw_query)
                    THEN [@ EXCEPT !.pc = "raised", !.raised = "Exception"]
                    ELSE [@ EXCEPT !.pc = "rs_hits",
                                   !.hits = Collect(ix.docs,
                                                    ParseQuery(calls[c].raw_query,
                                                               calls[c].boosts),
                                                    calls[c].search_packages)]]
    /\ UNCHANGED <<resources, bvars, fvars, xvars>>

\* lines 175-183: the stored objects of the hits are returned
SearchReturn(c) ==
    /\ calls[c].pc = "rs_hits"
    /\ calls' = [calls EXCEPT ![c] =
                    [@ EXCEPT !.pc = "done",
                              !.value = HitObjects(ix.docs, calls[c].hits, resources)]]
    /\ ix' = IndexAfterSearch(ix, calls[c].hits)
    /\ UNCHANGED <<resources, built, bpc, bi, writer, segment, ix0, berr, fvars, xvars>>

\* autocomplete_resource_names(resources, raw_query, limit, min_score) is
\* called with arguments of the given sets
StartAutocompleteFrom(c, queries, limits, min_scores) ==
    /\ bpc = "ready"
    /\ calls[c].pc = "idle"
    /\ \E q \in queries, l \in limits, ms \in min_scores :
          calls' = [calls EXCEPT ![c] =
                       [Idle EXCEPT !.pc = "ac_prepare",
                                    !.op = "autocomplete_resource_names",
                                    !.raw_query = q, !.limit = l, !.min_score = ms]]
    /\ UNCHANGED <<resources, bvars, fvars, xvars>>

StartAutocomplete(c) == StartAutocompleteFrom(c, AcQueries, AcLimits, AcMinScores)

\* lines 99-110
AcPrepare(c) ==
    /\ calls[c].pc = "ac_prepare"
    /\ LET query == PrepareQuery(calls[c].raw_query)
       IN  calls' = [calls EXCEPT ![c] =
                        IF query = <<>> THEN [@ EXCEPT !.pc = "done", !.value = <<>>]
                        ELSE [@ EXCEPT !.pc = "ac_loop", !.query = query, !.i = 1,
                                       !.scored = <<>>]]
    /\ UNCHANGED <<resources, bvars, fvars, xvars>>

\* lines 111-144: one resource of the loop
AcScore(c) ==
    /\ calls[c].pc = "ac_loop"
    /\ calls[c].i <= Len(resources)
    /\ calls' = [calls EXCEPT ![c] =
                    [@ EXCEPT !.i = @ + 1,
                              !.scored = ScoreResource(@, calls[c].query,
                                                       resources[calls[c].i].name,
                                                       calls[c].min_score)]]
    /\ UNCHANGED <<resources, bvars, fvars, xvars>>

\* lines 146-147
AcReturn(c) ==
    /\ calls[c].pc = "ac_loop"
    /\ calls[c].i > Len(resources)
    /\ calls' = [calls EXCEPT ![c] =
                    [@ EXCEPT !.pc = "done",
                              !.value = Suggestions(calls[c].scored, calls[c].limit)]]
    /\ UNCHANGED <<resources, bvars, fvars, xvars>>

\* the caller is done with the outcome of its call and may call again
Forget(c) ==
    /\ calls[c].pc \in Finished
    /\ calls' = [calls EXCEPT ![c] = Idle]
    /\ UNCHANGED <<resources, bvars, fvars, xvars>>

Build == CreateIndex \/ AddDocument \/ Commit \/ ReturnIndex

Call(c) ==
    \/ StartSearch(c) \/ SearchBoosts(c) \/ SearchCollect(c) \/ SearchReturn(c)
    \/ StartAutocomplete(c) \/ AcPrepare(c) \/ AcScore(c) \/ AcReturn(c)
    \/ Forget(c)

\* one caller at a time, and a caller that may change its resources
Next == Build \/ MutateResource \/ Call("c1")

Spec == Init /\ [][Next]_vars

\* searches over the large catalogs
SearchCall(c) ==
    \/ StartSearch(c) \/ SearchBoosts(c) \/ SearchCollect(c) \/ SearchReturn(c)
    \/ Forget(c)

InitBig == InitWith(BigCatalogs)

NextBig == Build \/ SearchCall("c1")

SpecBig == InitBig /\ [][NextBig]_vars

\* two callers at once, over one catalog
ConcCatalogs == {<<ResOutGen, ResOutXx, ResPrelimRaw>>}

InitConc == InitWith(ConcCatalogs)

\* the arguments of the calls of the two callers
ConcQueries ==
    {<<"g","e","n">>, <<"o","u","t"," ","y","r">>, <<"t","h","e">>,
     <<"o","r","i","g","i","n","a","l","_","o","b","j","e","c","t",":","g","e","n">>}

ConcMethods == {"default", "column_boost", "bogus"}

ConcAcQueries == {<<"o","u","t"," ","g","e","n">>, <<"n","a","m","e",":"," ">>}

ConcAcLimits == {-1, 8}

ConcCall(c) ==
    \/ StartSearchFrom(c, ConcQueries, ConcMethods, SearchPackages)
    \/ SearchBoosts(c) \/ SearchCollect(c) \/ SearchReturn(c)
    \/ StartAutocompleteFrom(c, ConcAcQueries, ConcAcLimits, AcMinScores)
    \/ AcPrepare(c) \/ AcScore(c) \/ AcReturn(c)
    \/ Forget(c)

NextConc == Build \/ \E c \in Callers : ConcCall(c)

SpecConc == InitConc /\ [][NextConc]_vars

\* a resource of which autocomplete_resource_names reads the name only
Named(n) == Res(n, Pudl, <<>>, <<>>)

\* the table names the suggestions are drawn from, in the order a catalog
\* lists them
AcNames ==
    <<<<"O","u","t","_","g","e","n">>,
      <<"o","u","t","_","g","e","n">>,
      <<"x","_","g","e","n","_","_">>,
      <<"a","b","c">>,
      <<"a","b","_","b","c">>,
      <<"b","c","_","a","b">>,
      <<"_","a">>,
      <<"_","b">>,
      <<"o","u","t","_","e","i","a","8","6","0">>,
      <<"g","e","n">>>>

\* the most resources of a catalog of table names
MaxAcRes == 2

\* the catalogs of table names: up to MaxAcRes of AcNames, in their order
AcCatalogs ==
    {List([k \in 1..Len(pick) |-> Named(AcNames[pick[k]])]) :
        pick \in {p \in UNION {[1..n -> 1..Len(AcNames)] : n \in 0..MaxAcRes} :
                    \A i, j \in 1..Len(p) : i < j => p[i] < p[j]}}

AcTableQueries ==
    {<<>>,
     <<" "," ">>,
     <<"n","a","m","e",":">>,
     <<" ","N","a","m","e",":"," ">>,
     <<"g","e","n">>,
     <<"n","a","m","e",":","g","e","n">>,
     <<"o","u","t","_","g","e","n">>,
     <<" ","O","u","t","_","G","e","n"," ">>,
     <<"a","b"," ","b","c">>,
     <<"_">>,
     <<"e","i","a"," ","8","6","0">>}

AcTableLimits == {-1, 0, 1, 8}

AcTableMinScores == {Frac(0, 1), Frac(9, 20), Frac(3, 2)}

InitAc == InitWith(AcCatalogs)

AcCall(c) ==
    \/ StartAutocompleteFrom(c, AcTableQueries, AcTableLimits, AcTableMinScores)
    \/ AcPrepare(c) \/ AcScore(c) \/ AcReturn(c)
    \/ Forget(c)

NextAc == Build \/ AcCall("c1")

\* suggestions over catalogs of table names
SpecAc == InitAc /\ [][NextAc]_vars

----------------------------------------------------------------------------
(* Feature flags: feature_flags.py *)

\* truthiness and digits: bool(value) for numbers, "1" and "0" read as 1 and 0
CoerceLenient(value) ==
    IF value.t = "bool" THEN [raised |-> "", value |-> value]
    ELSE IF value.t \in {"int", "float"}
    THEN [raised |-> "", value |-> PyBool(value.n # 0)]
    ELSE IF value.t = "str" /\ Lower(value.s) \in {<<"t","r","u","e">>, <<"1">>}
    THEN [raised |-> "", value |-> PyBool(TRUE)]
    ELSE IF value.t = "str" /\ Lower(value.s) \in {<<"f","a","l","s","e">>, <<"0">>}
    THEN [raised |-> "", value |-> PyBool(FALSE)]
    ELSE [raised |-> "ValueError", value |-> Missing]

\* lines 8-36: _coerce_flag_value
coerce_flag_value(value) ==
    IF value.t = "bool" THEN [raised |-> "", value |-> value]
    ELSE IF value.t = "int"
    THEN IF value.n \in {0, 1}
         THEN [raised |-> "", value |-> PyBool(value.n = 1)]
         ELSE [raised |-> "ValueError", value |-> Missing]
    ELSE IF value.t = "str" /\ Lower(value.s) = <<"t","r","u","e">>
    THEN [raised |-> "", value |-> PyBool(TRUE)]
    ELSE IF value.t = "str" /\ Lower(value.s) = <<"f","a","l","s","e">>
    THEN [raised |-> "", value |-> PyBool(FALSE)]
    ELSE [raised |-> "ValueError", value |-> Missing]

\* dict.get(key, default)
DictGet(d, key, default) == IF d[key] = Missing THEN default ELSE d[key]

\* the config default decides whenever the config names the flag
FlagOutcomeConfigFirst(cfg, ctx, args, sess, flag_name) ==
    LET flag_from_config == coerce_flag_value(DictGet(cfg, flag_name, PyBool(FALSE)))
    IN  IF cfg[flag_name] # Missing
        THEN [raised |-> flag_from_config.raised, value |-> flag_from_config.value,
              session |-> sess]
        ELSE IF ctx /\ args[flag_name] # Missing
        THEN LET value == coerce_flag_value(args[flag_name])
             IN  IF value.raised # ""
                 THEN [raised |-> value.raised, value |-> Missing, session |-> sess]
                 ELSE [raised |-> "", value |-> value.value,
                       session |-> [sess EXCEPT ![flag_name] = value.value]]
        ELSE IF ctx /\ sess[flag_name] # Missing
        THEN [raised |-> "", value |-> sess[flag_name], session |-> sess]
        ELSE [raised |-> "", value |-> flag_from_config.value, session |-> sess]

\* lines 47-58: what is_flag_enabled(flag_name) returns or raises, and the
\* session it leaves, for a config, a request (or none) and a session
FlagOutcome(cfg, ctx, args, sess, flag_name) ==
    LET flag_from_config == DictGet(cfg, flag_name, PyBool(FALSE))
        coerced_flag_from_config == coerce_flag_value(flag_from_config)
    IN  IF coerced_flag_from_config.raised # ""
        THEN [raised |-> coerced_flag_from_config.raised, value |-> Missing,
              session |-> sess]
        ELSE IF ctx /\ args[flag_name] # Missing
        THEN LET value == coerce_flag_value(args[flag_name])
             IN  IF value.raised # ""
                 THEN [raised |-> value.raised, value |-> Missing, session |-> sess]
                 ELSE [raised |-> "", value |-> value.value,
                       session |-> [sess EXCEPT ![flag_name] = value.value]]
        ELSE IF ctx /\ sess[flag_name] # Missing
        THEN [raised |-> "", value |-> sess[flag_name], session |-> sess]
        ELSE [raised |-> "", value |-> coerced_flag_from_config.value, session |-> sess]

\* the values a query string gives a flag: request.args values are strings
ArgValues ==
    {PyStr(<<"t","r","u","e">>), PyStr(<<"F","A","L","S","E">>), PyStr(<<"y","e","s">>)}

\* request.args, restricted to the flags' names
RequestArgs == [FlagNames -> ArgValues \cup {Missing}]

\* the v of a query string value v that says true or false
SaidBy(arg) ==
    IF arg = PyStr(<<"t","r","u","e">>) THEN PyBool(TRUE)
    ELSE IF arg = PyStr(<<"F","A","L","S","E">>) THEN PyBool(FALSE)
    ELSE Missing

\* lines 39-58: is_flag_enabled(flag_name) during a request of session sid
\* with the query string args, or (ctx false) outside of any request
is_flag_enabled(sid, ctx, args, flag_name) ==
    LET out == FlagOutcome(config, ctx, args, session[sid], flag_name)
    IN  /\ flag_call' = [sid |-> sid, flag_name |-> flag_name, ctx |-> ctx,
                         args |-> args, raised |-> out.raised, value |-> out.value]
        /\ session' = [session EXCEPT ![sid] = out.session]
        /\ last_set' = IF ctx /\ SaidBy(args[flag_name]) # Missing
                       THEN [last_set EXCEPT ![sid][flag_name] = SaidBy(args[flag_name])]
                       ELSE last_set
        /\ UNCHANGED <<resources, bvars, calls, config, xvars>>

\* a call during a request, or one outside of any request (no query string)
IsFlagEnabledCall ==
    \E sid \in SessionIds, flag_name \in FlagNames :
        \/ \E args \in RequestArgs : is_flag_enabled(sid, TRUE, args, flag_name)
        \/ is_flag_enabled(sid, FALSE, EmptySession, flag_name)

\* test_feature_flags.py:83, 108: app.config["FEATURE_FLAGS"][flag] = value
SetConfig ==
    \E f \in ConfiguredFlags, v \in ConfigValues :
        /\ config[f] # v
        /\ config' = [config EXCEPT ![f] = v]
        /\ UNCHANGED <<resources, bvars, calls, session, flag_call, last_set, xvars>>

\* __init__.py:332, 346: logout clears the session and deletes its cookie
Logout ==
    \E sid \in SessionIds :
        /\ session[sid] # EmptySession \/ session_variants[sid] # NoVariants
        /\ session' = [session EXCEPT ![sid] = EmptySession]
        /\ last_set' = [last_set EXCEPT ![sid] = EmptySession]
        /\ session_variants' = [session_variants EXCEPT ![sid] = NoVariants]
        /\ last_variant' = [last_variant EXCEPT ![sid] = NoVariants]
        /\ UNCHANGED <<resources, bvars, calls, config, flag_call, notlogout>>

InitFlags == InitIndexWith({<<>>}) /\ InitFlagsWith(Configs) /\ InitIdle

NextFlags == IsFlagEnabledCall \/ SetConfig \/ Logout

\* requests of two sessions asking for flags, the config patched in between
SpecFlags == InitFlags /\ [][NextFlags]_vars

----------------------------------------------------------------------------
(* Gated routes: require_feature_flag of feature_flags.py *)

\* the request's own query string decides: its value for the flag is compared
\* with `value` as text, the session and the config are not asked
GateOutcomeArgOnly(cfg, args, sess, flag_name, value) ==
    IF args[flag_name] # PyStr(value)
    THEN [status |-> "404", handler_ran |-> FALSE, enabled |-> args[flag_name],
          session |-> sess]
    ELSE [status |-> "200", handler_ran |-> TRUE, enabled |-> args[flag_name],
          session |-> sess]

\* lines 66-70: wrapped(): the answer to a request of a route under
\* require_feature_flag(flag_name, value), whether the handler f ran, what
\* is_flag_enabled returned (Missing if it was not called or raised) and the
\* session it leaves
GateOutcome(cfg, args, sess, flag_name, value) ==
    LET expected == coerce_flag_value(PyStr(value))
        out == FlagOutcome(cfg, TRUE, args, sess, flag_name)
    IN  IF expected.raised # ""
        THEN [status |-> expected.raised, handler_ran |-> FALSE, enabled |-> Missing,
              session |-> sess]
        ELSE IF out.raised # ""
        THEN [status |-> out.raised, handler_ran |-> FALSE, enabled |-> Missing,
              session |-> out.session]
        ELSE IF out.value # expected.value
        THEN [status |-> "404", handler_ran |-> FALSE, enabled |-> out.value,
              session |-> out.session]
        ELSE [status |-> "200", handler_ran |-> TRUE, enabled |-> out.value,
              session |-> out.session]

\* the `value` arguments of the decorator: the default, the test's "false",
\* and a text that coerces through lower()
GateValues == {<<"t","r","u","e">>, <<"f","a","l","s","e">>, <<"T","R","U","E">>}

\* query strings that give the gated flag a value or none
GateArgs(flag_name) ==
    {args \in RequestArgs : \A f \in FlagNames \ {flag_name} : args[f] = Missing}

\* lines 61-74: a request of session sid, with the query string args, of a
\* route under require_feature_flag(flag_name, value)
wrapped(sid, args, flag_name, value) ==
    LET g == GateOutcome(config, args, session[sid], flag_name, value)
    IN  /\ gate_call' = [sid |-> sid, flag_name |-> flag_name, value |-> value,
                         args |-> args, enabled |-> g.enabled, status |-> g.status,
                         handler_ran |-> g.handler_ran]
        /\ session' = [session EXCEPT ![sid] = g.session]
        /\ last_set' = IF g.session # session[sid]
                       THEN [last_set EXCEPT ![sid][flag_name] = g.session[flag_name]]
                       ELSE last_set
        /\ UNCHANGED <<resources, bvars, calls, config, flag_call, notgate>>

GatedRequest ==
    \E sid \in SessionIds, flag_name \in FlagNames, value \in GateValues :
        \E args \in GateArgs(flag_name) : wrapped(sid, args, flag_name, value)

NextGate == GatedRequest \/ SetConfig \/ Logout

\* requests of gated routes by two sessions, the config patched in between
SpecGate == InitFlags /\ [][NextGate]_vars

----------------------------------------------------------------------------
(* _coerce_flag_value of feature_flags.py alone *)

\* str.upper() on the letters of "true" and "false"
ToUpper(c) == CASE c = "a" -> "A" [] c = "e" -> "E" [] c = "f" -> "F" [] c = "l" -> "L"
                [] c = "r" -> "R" [] c = "s" -> "S" [] c = "t" -> "T" [] c = "u" -> "U"
                [] OTHER -> c

\* the word with each of its letters in either case
CaseVariants(word) ==
    {[i \in 1..Len(word) |-> IF up[i] THEN ToUpper(word[i]) ELSE word[i]] :
        up \in [1..Len(word) -> BOOLEAN]}

\* the integers given to _coerce_flag_value run from MinInt to MaxInt
MinInt == -1

MaxInt == 3

\* other strings: digits, words, the empty string, near misses
OtherStrings ==
    {<<"0">>, <<"1">>, <<"y","e","s">>, <<"n","o">>, <<>>, <<"t","r","u">>,
     <<"t","r","u","e","e">>, <<" ","t","r","u","e">>, <<"t","r","u","e"," ">>,
     <<"T">>, <<"F">>, <<"o","n">>}

\* the inputs of the tests (test_feature_flags.py:34-65) and their like
CoerceInputs ==
    {PyBool(TRUE), PyBool(FALSE)}
    \cup {PyInt(n) : n \in MinInt..MaxInt}
    \cup {PyStr(w) : w \in CaseVariants(<<"t","r","u","e">>)}
    \cup {PyStr(w) : w \in CaseVariants(<<"f","a","l","s","e">>)}
    \cup {PyStr(w) : w \in OtherStrings}
    \cup {PyNone, PyFloat(1), PyList, PyDict}

InitCoerce ==
    /\ InitIndexWith({<<>>})
    /\ InitFlagsWith({BaseConfig})
    /\ gate_call = NoGateCall
    /\ InitVariantsWith({TestVariantConfig})
    /\ merge_call = NoMergeCall
    /\ InitPrivacy
    /\ coerce_call \in {[NoCoerceCall EXCEPT !.input = v, !.pc = "called"] :
                          v \in CoerceInputs}

\* lines 8-36: the call returns or raises
CoerceReturn ==
    /\ coerce_call.pc = "called"
    /\ coerce_call' = [coerce_call EXCEPT
                          !.pc = "done",
                          !.raised = coerce_flag_value(coerce_call.input).raised,
                          !.value = coerce_flag_value(coerce_call.input).value]
    /\ UNCHANGED <<resources, bvars, calls, fvars, notcoerce>>

NextCoerce == CoerceReturn

\* one call of _coerce_flag_value for each input
SpecCoerce == InitCoerce /\ [][NextCoerce]_vars

----------------------------------------------------------------------------
(* Feature variants: feature_variants.py *)

RECURSIVE SplitFrom(_, _, _)
\* str.split(sep) for a one-character sep, from position `from` (0-based) on
SplitFrom(s, sep, from) ==
    LET k == IF from > Len(s) THEN -1 ELSE Find(s, <<sep>>, from)
    IN  IF k = -1 THEN <<Slice(s, from, Len(s))>>
        ELSE <<Slice(s, from, k)>> \o SplitFrom(s, sep, k + 1)

Split(s, sep) == SplitFrom(s, sep, 0)

\* every variant the feature's set holds is valid, the empty string too
IsValidAnyMember(feature_config, variant) ==
    variant # Missing /\ variant.s \in feature_config.variants \cup {<<>>}

\* lines 15-16: FeatureVariants.is_valid; the variant is a str or None
is_valid(feature_config, variant) ==
    /\ variant # Missing
    /\ variant.s # <<>>
    /\ variant.s \in feature_config.variants

RECURSIVE DictOfPairs(_, _, _)
\* line 50-52: the value of the last pair whose key is `key`, or `default`
DictOfPairs(parts, key, default) ==
    IF parts = <<>> THEN default
    ELSE IF parts[Len(parts)][1] = key THEN parts[Len(parts)][2]
    ELSE DictOfPairs(SubSeq(parts, 1, Len(parts) - 1), key, default)

\* a request that says nothing of the feature is passed on to the session
VariantOutcomeSkipSilent(cfg, param, stored, feature_name) ==
    IF feature_name \notin DOMAIN cfg
    THEN [status |-> "404", value |-> Missing, stored |-> stored]
    ELSE LET feature_config == cfg[feature_name]
             pairs == IF param = Missing THEN <<>> ELSE Split(param.s, ",")
             parts == [i \in 1..Len(pairs) |-> Split(pairs[i], ":")]
             given == param # Missing /\ \A i \in 1..Len(parts) : Len(parts[i]) = 2
             current == IF given THEN DictOfPairs(parts, feature_name, <<>>) ELSE <<>>
         IN  IF param # Missing /\ ~given
             THEN [status |-> "404", value |-> Missing, stored |-> stored]
             ELSE IF current # <<>> /\ ~is_valid(feature_config, PyStr(current))
             THEN [status |-> "404", value |-> Missing, stored |-> stored]
             ELSE IF current # <<>>
             THEN [status |-> "200", value |-> PyStr(current),
                   stored |-> [stored EXCEPT ![feature_name] = PyStr(current)]]
             ELSE IF is_valid(feature_config, stored[feature_name])
             THEN [status |-> "200", value |-> stored[feature_name], stored |-> stored]
             ELSE [status |-> "200", value |-> PyStr(feature_config.default),
                   stored |-> stored]

\* the variant of the request is returned and not stored
VariantOutcomeNoStore(cfg, param, stored, feature_name) ==
    LET out == VariantOutcomeSkipSilent(cfg, param, stored, feature_name)
        silent == param # Missing /\ out.status = "200" /\ out.stored = stored
    IN  IF silent THEN [status |-> "404", value |-> Missing, stored |-> stored]
        ELSE [out EXCEPT !.stored = stored]

\* the variant of the request is stored as the session's only entry
VariantOutcomeOverwrite(cfg, param, stored, feature_name) ==
    LET out == VariantOutcomeSkipSilent(cfg, param, stored, feature_name)
        silent == param # Missing /\ out.status = "200" /\ out.stored = stored
    IN  IF silent THEN [status |-> "404", value |-> Missing, stored |-> stored]
        ELSE IF out.stored = stored THEN out
        ELSE [out EXCEPT !.stored =
                 [f \in DOMAIN stored |->
                     IF f = feature_name THEN out.value ELSE Missing]]

\* lines 39-69: what get_variant(feature_name) answers for a config, the
\* request's `variants` param (Missing if it has none) and the session's
\* stored variants, and the stored variants it leaves
VariantOutcome(cfg, param, stored, feature_name) ==
    IF feature_name \notin DOMAIN cfg
    THEN [status |-> "404", value |-> Missing, stored |-> stored]
    ELSE LET feature_config == cfg[feature_name]
         IN  IF param = Missing
             THEN IF is_valid(feature_config, stored[feature_name])
                  THEN [status |-> "200", value |-> stored[feature_name],
                        stored |-> stored]
                  ELSE [status |-> "200", value |-> PyStr(feature_config.default),
                        stored |-> stored]
             ELSE LET kv_pairs == Split(param.s, ",")
                      parts == [i \in 1..Len(kv_pairs) |-> Split(kv_pairs[i], ":")]
                  IN  IF \E i \in 1..Len(parts) : Len(parts[i]) # 2
                      THEN [status |-> "404", value |-> Missing, stored |-> stored]
                      ELSE LET current_request_variant ==
                                   PyStr(DictOfPairs(parts, feature_name, <<>>))
                           IN  IF ~is_valid(feature_config, current_request_variant)
                               THEN [status |-> "404", value |-> Missing,
                                     stored |-> stored]
                               ELSE [status |-> "200",
                                     value |-> current_request_variant,
                                     stored |-> [stored EXCEPT ![feature_name] =
                                                    current_request_variant]]

\* the `variants` params of the requests: none, the tests' ones, one that
\* names another feature only, an unknown variant, an empty one, texts that
\* are not lists of name:value pairs, a feature given twice
VariantParams ==
    {Missing,
     PyStr(<<"f","o","o",":","a">>),
     PyStr(<<"f","o","o",":","b">>),
     PyStr(<<"b","a","r",":","B">>),
     PyStr(<<"f","o","o",":","a",",","b","a","r",":","B">>),
     PyStr(<<"f","o","o",":","x">>),
     PyStr(<<"f","o","o",":">>),
     PyStr(<<"f","o","o">>),
     PyStr(<<>>),
     PyStr(<<"f","o","o",":","a",":","b">>),
     PyStr(<<"f","o","o",":","a",",">>),
     PyStr(<<"b","a","z",":","d","e","f","a","u","l","t">>),
     PyStr(<<"f","o","o",":","a",",","f","o","o",":","b">>)}

\* lines 19-69: get_variant(feature_name) in a request of session sid whose
\* `variants` param is param
get_variant(sid, param, feature_name) ==
    LET out == VariantOutcome(variant_config, param, session_variants[sid],
                              feature_name)
    IN  /\ variant_call' = [sid |-> sid, feature_name |-> feature_name,
                            param |-> param, status |-> out.status,
                            value |-> out.value]
        /\ session_variants' = [session_variants EXCEPT ![sid] = out.stored]
        /\ last_variant' = IF param # Missing /\ out.status = "200"
                           THEN [last_variant EXCEPT ![sid][feature_name] = out.value]
                           ELSE last_variant
        /\ UNCHANGED <<resources, bvars, calls, fvars, variant_config, notvariant>>

GetVariantCall ==
    \E sid \in SessionIds, param \in VariantParams, feature_name \in FeatureNames :
        get_variant(sid, param, feature_name)

InitVariants ==
    /\ InitIndexWith({<<>>})
    /\ InitFlagsWith({BaseConfig})
    /\ gate_call = NoGateCall
    /\ coerce_call = NoCoerceCall
    /\ merge_call = NoMergeCall
    /\ InitPrivacy
    /\ InitVariantsWith(VariantConfigs)

NextVariants == GetVariantCall \/ Logout

\* requests of two sessions asking for variants, and logouts
SpecVariants == InitVariants /\ [][NextVariants]_vars

----------------------------------------------------------------------------
(* merge_datapackages of utils.py *)

\* a list of at most MaxPkgs packages is merged, each of at most MaxPkgRes
\* resources
MaxPkgs == 2

MaxPkgRes == 2

\* test_utils.py:42-52: the resource names of the tests
TableNames == {"table_a", "table_b", "table_c"}

\* all sequences over S of length at most n
SeqsUpTo(S, n) == UNION {[1..k -> S] : k \in 0..n}

\* a package is the list of its resources' descriptors; the title tells the
\* packages' resources of one name apart
PackageOf(names, p) ==
    [i \in 1..Len(names) |-> [name |-> names[i], title |-> p]]

\* the resource names of one package: a package holds a name once
PackageNames ==
    {names \in SeqsUpTo(TableNames, MaxPkgRes) :
        \A i, j \in 1..Len(names) : i < j => names[i] # names[j]}

\* the lists of packages given to merge_datapackages
PackageLists ==
    {[p \in 1..Len(nameLists) |-> PackageOf(nameLists[p], p)] :
        nameLists \in SeqsUpTo(PackageNames, MaxPkgs)}

RECURSIVE ConcatResources(_, _)
\* lines 181-183: [res.to_descriptor() for pkg in datapackages
\*                 for res in pkg.resources], from package k on
ConcatResources(datapackages, k) ==
    IF k > Len(datapackages) THEN <<>>
    ELSE datapackages[k] \o ConcatResources(datapackages, k + 1)

\* lines 179-185: the "resources" of the descriptor handed to
\* Package.from_descriptor
MergedDescriptors(datapackages) == ConcatResources(datapackages, 1)

\* some name occurs twice among the descriptors
HasDuplicateNames(descriptors) ==
    \E i, j \in 1..Len(descriptors) :
        i < j /\ descriptors[i].name = descriptors[j].name

\* merge_datapackages(datapackages) is called
MergeStart ==
    /\ merge_call.pc = ""
    /\ \E d \in PackageLists :
          merge_call' = [NoMergeCall EXCEPT !.datapackages = d, !.pc = "called"]
    /\ UNCHANGED <<resources, bvars, calls, fvars, notmerge>>

\* lines 179-185: Package.from_descriptor returns the package of the
\* descriptors, in their order; the function logs nothing
MergeReturn ==
    /\ merge_call.pc = "called"
    /\ merge_call' = [merge_call EXCEPT
                         !.pc = "done",
                         !.value = MergedDescriptors(merge_call.datapackages)]
    /\ UNCHANGED <<resources, bvars, calls, fvars, notmerge>>

\* line 179: frictionless, which is not part of the repository, may refuse a
\* descriptor whose resource names are not unique
MergeRaise ==
    /\ merge_call.pc = "called"
    /\ HasDuplicateNames(MergedDescriptors(merge_call.datapackages))
    /\ merge_call' = [merge_call EXCEPT !.pc = "raised",
                                        !.raised = "FrictionlessException"]
    /\ UNCHANGED <<resources, bvars, calls, fvars, notmerge>>

InitMerge ==
    /\ InitIndexWith({<<>>})
    /\ InitFlagsWith({BaseConfig})
    /\ InitIdle

NextMerge == MergeStart \/ MergeReturn \/ MergeRaise

\* one call of merge_datapackages for each list of packages
SpecMerge == InitMerge /\ [][NextMerge]_vars

----------------------------------------------------------------------------
(* The privacy policy: __init__.py, check_for_privacy_policy, callback,
   logout, privacy_settings *)

\* flask_login: current_user is the user of the session or, when the session
\* names none, the user of the remember_token cookie
current_user(b) ==
    IF clients[b].session.user_id # Anonymous THEN clients[b].session.user_id
    ELSE clients[b].remember_token

\* flask_login: loading the user of the remember_token cookie puts the user
\* back into the session
LoadedSession(b) == [clients[b].session EXCEPT !.user_id = current_user(b)]

\* current_user.accepted_privacy_policy (an anonymous user is never asked)
Accepted(user) == user # Anonymous /\ users[user].accepted_privacy_policy

\* request.full_path: the path, "?", the query string
full_path(path, query) == path \o <<"?">> \o query

\* url_for("privacy_policy", next_url=...)
url_for_privacy_policy(next_url) ==
    [path |-> PrivacyPolicyPath, query |-> <<>>, has_next |-> TRUE,
     next_url |-> next_url]

\* the URL a string names: the path up to the first "?", the query after it
ParseUrl(url) ==
    LET k == Find(url, <<"?">>, 0)
    IN  IF k = -1 THEN Url(url, <<>>)
        ELSE Url(Slice(url, 0, k), Slice(url, k + 1, Len(url)))

\* the check lets the files of the static folder through, and nothing else
\* that begins with /static
BouncesOutsideStaticFolder(user, path) ==
    /\ user # Anonymous
    /\ ~Accepted(user)
    /\ path \notin {PrivacyPolicyPath, PrivacySettingsPath, LogoutPath}
    /\ ~StartsWith(path, StaticPrefix \o <<"/">>)

\* lines 229-254: TRUE when the before_request hook answers with the
\* redirect to the privacy policy, FALSE when it returns None
check_for_privacy_policy(user, path) ==
    IF user = Anonymous THEN FALSE
    ELSE IF Accepted(user) THEN FALSE
    ELSE IF path \in {PrivacyPolicyPath, PrivacySettingsPath, LogoutPath} THEN FALSE
    ELSE IF StartsWith(path, StaticPrefix) THEN FALSE
    ELSE TRUE

\* what a view function leaves behind: the users table, the browser's
\* session and remember_token cookie, and the response
Outcome(tbl, sess, token, status, location, handler, raised) ==
    [users |-> tbl, session |-> sess, remember_token |-> token, status |-> status,
     location |-> location, handler |-> handler, raised |-> raised]

\* lines 301-320: login_user(user, remember=True), then the redirect to
\* next_url, by default the search page
callback(sess, token, userinfo) ==
    Outcome(users, [sess EXCEPT !.user_id = userinfo], userinfo, 302,
            Url(SearchPath, <<>>), "callback", "")

\* logout that pops the user from the session and drops the cookies but
\* leaves the other keys of the session
LogoutKeepSession(sess, token, user) ==
    IF user = Anonymous
    THEN Outcome(users, sess, token, 500, NoLocation, "logout", "AttributeError")
    ELSE Outcome(users, [sess EXCEPT !.user_id = Anonymous], Anonymous, 302,
                 Url(Auth0LogoutUrl, <<>>), "logout", "")

\* lines 322-347 (login_required, written above app.route, wraps nothing
\* that Flask calls): an anonymous user has no email, line 330 raises;
\* otherwise logout_user(), session.clear(), the redirect to Auth0, and
\* both cookies are deleted
logout(sess, token, user) ==
    IF user = Anonymous
    THEN Outcome(users, sess, token, 500, NoLocation, "logout", "AttributeError")
    ELSE Outcome(users, EmptyClientSession, Anonymous, 302,
                 Url(Auth0LogoutUrl, <<>>), "logout", "")

\* field in request.form and request.form[field] == "on"
IsOn(form, field) == form[field] = PyStr(<<"o", "n">>)

\* a form handler that stores the consent fields only on acceptance
PrivacySettingsStoreOnAccept(sess, token, user, form) ==
    LET accepted == IsOn(form, "accept_privacy_policy")
        stored == [accepted_privacy_policy |-> TRUE,
                   do_individual_outreach |-> IsOn(form, "do_individual_outreach"),
                   send_newsletter |-> IsOn(form, "send_newsletter")]
        tbl == IF user = Anonymous \/ ~accepted THEN users
               ELSE [users EXCEPT ![user] = stored]
    IN  IF ~accepted
        THEN Outcome(tbl, sess, token, 302, Url(LogoutPath, <<>>), "privacy_settings", "")
        ELSE Outcome(tbl, sess, token, 302,
                     IF form.next_url = Missing THEN Url(PrivacyPolicyPath, <<>>)
                     ELSE ParseUrl(form.next_url.s),
                     "privacy_settings", "")

\* lines 361-402 (login_required, written above app.post, wraps nothing that
\* Flask calls): the three fields are read, stored on current_user and
\* committed; a rejection redirects to /logout, an acceptance to the form's
\* next_url, by default the privacy policy.  The attributes of an anonymous
\* user are no row of the table
privacy_settings(sess, token, user, form) ==
    LET accepted == IsOn(form, "accept_privacy_policy")
        stored == [accepted_privacy_policy |-> accepted,
                   do_individual_outreach |-> IsOn(form, "do_individual_outreach"),
                   send_newsletter |-> IsOn(form, "send_newsletter")]
        tbl == IF user = Anonymous THEN users ELSE [users EXCEPT ![user] = stored]
    IN  IF ~accepted
        THEN Outcome(tbl, sess, token, 302, Url(LogoutPath, <<>>), "privacy_settings", "")
        ELSE Outcome(tbl, sess, token, 302,
                     IF form.next_url = Missing THEN Url(PrivacyPolicyPath, <<>>)
                     ELSE ParseUrl(form.next_url.s),
                     "privacy_settings", "")

\* the view function of the route that matches, or 404 when none does
dispatch_request(sess, token, user, method, path, form, userinfo) ==
    CASE method = "GET" /\ path = CallbackPath -> callback(sess, token, userinfo)
      [] method = "GET" /\ path = LogoutPath -> logout(sess, token, user)
      [] method = "POST" /\ path = PrivacySettingsPath ->
            privacy_settings(sess, token, user, form)
      [] method = "POST" /\ path = DismissPath ->
            Outcome(users, [sess EXCEPT !.beta_notification_dismissed = TRUE], token,
                    200, NoLocation, "dismiss_notification", "")
      [] method = "GET" /\ path = HomePath ->
            Outcome(users, sess, token, 302, Url(SearchPath, <<>>), "home", "")
      [] method = "GET" /\ path = SearchPath ->
            Outcome(users, sess, token, 200, NoLocation, "search", "")
      [] method = "GET" /\ path = PrivacyPolicyPath ->
            Outcome(users, sess, token, 200, NoLocation, "privacy_policy", "")
      [] method = "GET" /\ path = StaticFilePath ->
            Outcome(users, sess, token, 200, NoLocation, "static", "")
      [] OTHER -> Outcome(users, sess, token, 404, NoLocation, "", "")

\* one request of browser b: the user is loaded, the before_request hook
\* runs, and unless it answers, the view function does
full_dispatch_request(b, method, path, query, form, userinfo, followed_from) ==
    LET user == current_user(b)
        sess == LoadedSession(b)
        token == clients[b].remember_token
        bounced == check_for_privacy_policy(user, path)
        out == IF bounced
               THEN Outcome(users, sess, token, 302,
                            url_for_privacy_policy(full_path(path, query)), "", "")
               ELSE dispatch_request(sess, token, user, method, path, form, userinfo)
    IN  /\ users' = out.users
        /\ clients' = [clients EXCEPT ![b] = [session |-> out.session,
                                              remember_token |-> out.remember_token]]
        /\ privacy_call' =
              [client |-> b, method |-> method, path |-> path, query |-> query,
               form |-> form, user |-> user, accepted |-> Accepted(user),
               followed_from |-> followed_from, bounced |-> bounced,
               status |-> out.status, location |-> out.location,
               handler |-> out.handler, raised |-> out.raised]
        /\ UNCHANGED <<resources, bvars, calls, fvars, notprivacy>>

\* the pages a browser asks for: path and query string
PageRequests ==
    {<<SearchPath, <<>>>>, <<SearchPath, <<"q", "=", "x">>>>,
     <<PrivacyPolicyPath, <<>>>>, <<StaticFilePath, <<>>>>,
     <<StaticLookalikePath, <<>>>>, <<UnknownPath, <<>>>>}

\* a form of the privacy policy page: the boxes that are ticked send "on"
Form(accept, outreach, newsletter, next_url) ==
    [accept_privacy_policy |-> accept, do_individual_outreach |-> outreach,
     send_newsletter |-> newsletter, next_url |-> next_url]

\* the forms a browser posts to /privacy-settings
PrivacyForms ==
    LET on == PyStr(<<"o", "n">>)
        off == PyStr(<<"o", "f", "f">>)
        next == PyStr(full_path(SearchPath, <<"q", "=", "x">>))
    IN  {Form(Missing, Missing, Missing, Missing),
         Form(off, on, Missing, next),
         Form(Missing, Missing, on, Missing),
         Form(on, Missing, Missing, Missing),
         Form(on, on, Missing, next),
         Form(on, Missing, on, Missing),
         Form(on, on, on, next)}

\* Auth0 sends the browser back to /callback with the user it logged in
CallbackRequest ==
    \E b \in ClientIds, u \in UserIds :
        full_dispatch_request(b, "GET", CallbackPath, <<>>, NoForm, u, <<>>)

PageRequest ==
    \E b \in ClientIds, r \in PageRequests :
        full_dispatch_request(b, "GET", r[1], r[2], NoForm, Anonymous, <<>>)

DismissRequest ==
    \E b \in ClientIds :
        full_dispatch_request(b, "POST", DismissPath, <<>>, NoForm, Anonymous, <<>>)

LogoutRequest ==
    \E b \in ClientIds :
        full_dispatch_request(b, "GET", LogoutPath, <<>>, NoForm, Anonymous, <<>>)

PrivacySettingsRequest ==
    \E b \in ClientIds, form \in PrivacyForms :
        full_dispatch_request(b, "POST", PrivacySettingsPath, <<>>, form, Anonymous, <<>>)

\* the browser follows the redirect it was just answered with, when the
\* location is a path of the application
FollowRedirect ==
    \E b \in ClientIds :
        /\ privacy_call.client = b
        /\ privacy_call.status = 302
        /\ StartsWith(privacy_call.location.path, <<"/">>)
        /\ full_dispatch_request(b, "GET", privacy_call.location.path,
                                 privacy_call.location.query, NoForm, Anonymous,
                                 privacy_call.path)

\* the browser is closed and opened again: the session cookie is gone, the
\* remember_token cookie is kept
BrowserRestart ==
    \E b \in ClientIds :
        /\ clients[b].session # EmptyClientSession
        /\ clients' = [clients EXCEPT ![b].session = EmptyClientSession]
        /\ UNCHANGED <<resources, bvars, calls, fvars, notprivacy, users, privacy_call>>

InitPrivacyPolicy ==
    /\ InitIndexWith({<<>>})
    /\ InitFlagsWith({BaseConfig})
    /\ InitIdle

NextPrivacy ==
    \/ CallbackRequest
    \/ PageRequest
    \/ DismissRequest
    \/ LogoutRequest
    \/ PrivacySettingsRequest
    \/ FollowRedirect
    \/ BrowserRestart

\* a browser and two users: logging in, asking for pages, answering the
\* privacy form, following redirects, logging out
SpecPrivacy == InitPrivacyPolicy /\ [][NextPrivacy]_vars

----------------------------------------------------------------------------
(* Properties of run_search *)

\* a call of run_search that has returned its list
SearchDone(c) == calls[c].op = "run_search" /\ calls[c].pc = "done"

\* the user's query of a call, parsed as the call parsed it
UserQuery(c) == ParseQuery(calls[c].raw_query, calls[c].boosts)

\* the document numbers of the hits of a call
HitDocs(c) == {calls[c].hits[k].docnum : k \in 1..Len(calls[c].hits)}

\* where a document stands in the hits of a call
HitPos(c, d) == CHOOSE k \in 1..Len(calls[c].hits) : calls[c].hits[k].docnum = d

\* the documents of the index the user's query of a call matches
TextMatching(c) ==
    {d \in 1..Len(ix.docs) : UserQueryMatches(ix.docs[d], UserQuery(c))}

\* those of them the package setting of the call lets through
Eligible(c) ==
    {d \in TextMatching(c) :
        calls[c].search_packages = "pudl_only" => ix.docs[d].package = Pudl}

\* C1: run_search returns at most 50 documents, and with search_packages =
\* "pudl_only" every returned document's package is "pudl".
C1_AtMostFiftyAndPudlOnly ==
    \A c \in Callers :
        SearchDone(c) =>
            /\ Len(calls[c].value) <= 50
            /\ calls[c].search_packages = "pudl_only" =>
                  \A k \in 1..Len(calls[c].value) : calls[c].value[k].package = Pudl

\* a pudl_only search that filled all 50 places although the index holds more
\* matching documents, some of them of another package
C1_Witness ==
    \E c \in Callers :
        /\ SearchDone(c)
        /\ calls[c].search_packages = "pudl_only"
        /\ Len(calls[c].value) = 50
        /\ Cardinality(Eligible(c)) > 50
        /\ \E d \in TextMatching(c) : ix.docs[d].package # Pudl

\* the hits the call would have without the tag boosts: the 50 best by text
\* score alone
UntaggedHitDocs(c) ==
    LET scored == SelectSeq(Scores(ix.docs, UserQuery(c)),
                            LAMBDA h : h.docnum \in Eligible(c))
        text == List([k \in 1..Len(scored) |->
                    [docnum |-> scored[k].docnum,
                     score |-> scored[k].score - TagScore(ix.docs[scored[k].docnum])]])
        top == TopHits(text, 50)
    IN  {top[k].docnum : k \in 1..Len(top)}

\* C2 as stated: which documents run_search returns is decided by the text
\* query and the package filter alone; the tag boosts change scores only.
C2_TagsNeverDecideMembership ==
    \A c \in Callers : SearchDone(c) => HitDocs(c) = UntaggedHitDocs(c)

\* C2 amended: a document that does not match the text query (or fails the
\* package filter) is never returned, and a matching one is left out only
\* when 50 documents are returned that all rank above it; with at most 50
\* matching documents the returned set is exactly the matching set.
C2_TagsDecideOnlyAmongTooMany ==
    \A c \in Callers :
        SearchDone(c) =>
            LET eligible == Eligible(c)
                returned == HitDocs(c)
                hits == calls[c].hits
                leftOut == SelectSeq(Scores(ix.docs, UserQuery(c)),
                                     LAMBDA h : h.docnum \in eligible \ returned)
            IN  /\ returned \subseteq eligible
                /\ Len(hits) = Cardinality(returned)
                /\ \/ returned = eligible
                   \/ /\ Len(hits) = 50
                      /\ \A x \in 1..Len(leftOut) : \A k \in 1..50 :
                            \/ hits[k].score > leftOut[x].score
                            \/ /\ hits[k].score = leftOut[x].score
                               /\ hits[k].docnum < leftOut[x].docnum

\* 50 documents are returned and a matching preliminary document is left
\* out that the text scores alone would have returned
C2_Witness ==
    \E c \in Callers :
        /\ SearchDone(c)
        /\ Len(calls[c].hits) = 50
        /\ \E d \in UntaggedHitDocs(c) \ HitDocs(c) :
              TermFreq(ix.docs[d], "tags", Preliminary) > 0

\* the combined scores of the matching documents of package pudl
PudlScored(c) ==
    SelectSeq(Scores(ix.docs, UserQuery(c)),
              LAMBDA h : ix.docs[h.docnum].package = Pudl)

\* C3: with search_packages = "pudl_only" the result is the (up to) 50
\* highest-scoring text-matching documents of package pudl, in descending
\* order of the combined score; documents of other packages take none of the
\* 50 places.
C3_FilterBeforeTruncation ==
    \A c \in Callers :
        SearchDone(c) /\ calls[c].search_packages = "pudl_only" =>
            LET pudl == PudlScored(c)
                hits == calls[c].hits
                returned == HitDocs(c)
                leftOut == SelectSeq(pudl, LAMBDA h : h.docnum \notin returned)
            IN  /\ Len(hits) = (IF Len(pudl) < 50 THEN Len(pudl) ELSE 50)
                /\ \A k \in 1..Len(hits) :
                      \E x \in 1..Len(pudl) : pudl[x] = hits[k]
                /\ \A k \in 1..(Len(hits) - 1) : hits[k].score >= hits[k + 1].score
                /\ \A k \in 1..Len(hits) : \A x \in 1..Len(leftOut) :
                      hits[k].score >= leftOut[x].score
                /\ calls[c].value =
                      List([k \in 1..Len(hits) |-> ix.docs[hits[k].docnum].original_object])

\* more than 50 pudl documents match, and a matching document of another
\* package scores above the last one returned
C3_Witness ==
    \E c \in Callers :
        /\ SearchDone(c)
        /\ calls[c].search_packages = "pudl_only"
        /\ Len(PudlScored(c)) > 50
        /\ Len(calls[c].hits) = 50
        /\ LET all == Scores(ix.docs, UserQuery(c))
           IN  \E x \in 1..Len(all) :
                  /\ ix.docs[all[x].docnum].package # Pudl
                  /\ all[x].score > calls[c].hits[50].score

\* the tag terms of a document
HasTag(d, tag) == TermFreq(ix.docs[d], "tags", tag) > 0

\* the score of the user's query of a call on document d, tags left aside
TextRelevance(c, d) ==
    TextScore(ix.docs, d, UserQuery(c), QueryStats(ix.docs, UserQuery(c)))

\* d1 stands before d2 in the result of a call, or d1 alone is in it
RankedBefore(c, d1, d2) ==
    /\ d1 \in HitDocs(c)
    /\ d2 \in HitDocs(c) => HitPos(c, d1) < HitPos(c, d2)

\* C4: of two documents that match the query with equal text relevance and
\* differ in one tag only, the one tagged out is ranked no lower than the one
\* without the out tag, and the one tagged preliminary no higher than the one
\* that is not preliminary.
C4_OutNoLowerPreliminaryNoHigher ==
    \A c \in Callers :
        SearchDone(c) =>
            \A d1, d2 \in Eligible(c) :
                d1 # d2 /\ TextRelevance(c, d1) = TextRelevance(c, d2) =>
                    /\ ( /\ HasTag(d1, Out) /\ ~HasTag(d2, Out)
                         /\ HasTag(d1, Preliminary) = HasTag(d2, Preliminary) )
                          => RankedBefore(c, d1, d2)
                    /\ ( /\ HasTag(d1, Preliminary) /\ ~HasTag(d2, Preliminary)
                         /\ HasTag(d1, Out) = HasTag(d2, Out) )
                          => RankedBefore(c, d2, d1)

\* both cases with the favoured document later in the index, where a tie of
\* the scores would have put it second
C4_Witness ==
    \E c \in Callers :
        /\ SearchDone(c)
        /\ \E d1, d2 \in HitDocs(c) :
              /\ TextRelevance(c, d1) = TextRelevance(c, d2)
              /\ TextRelevance(c, d1) > 0
              /\ d1 > d2
              /\ HitPos(c, d1) < HitPos(c, d2)
              /\ \/ /\ HasTag(d1, Out) /\ ~HasTag(d2, Out)
                    /\ HasTag(d1, Preliminary) = HasTag(d2, Preliminary)
                 \/ /\ HasTag(d2, Preliminary) /\ ~HasTag(d1, Preliminary)
                    /\ HasTag(d1, Out) = HasTag(d2, Out)

\* the call searched one unqualified word that analyzes to one term
OneTermQuery(c) ==
    /\ Len(UserQuery(c)) = 1
    /\ Len(UserQuery(c)[1]) = 3
    /\ \A a \in 1..3 : Len(UserQuery(c)[1][a].terms) = 1

\* the term of a one-term query
QueryTerm(c) == UserQuery(c)[1][1].terms[1]

\* the fields of document d the term of the call occurs in
MatchFields(c, d) ==
    {f \in {"name", "description", "columns"} : TermFreq(ix.docs[d], f, QueryTerm(c)) > 0}

\* the pairs (n, k) of hits of a one-term call: n matches the term in its
\* name only and k in its columns only
NameColumnPairs(c) ==
    {p \in HitDocs(c) \X HitDocs(c) :
        MatchFields(c, p[1]) = {"name"} /\ MatchFields(c, p[2]) = {"columns"}}

\* the hits of the query of a call under another variant, on the same index
HitsUnder(c, search_method) ==
    Collect(ix.docs,
            ParseQuery(calls[c].raw_query, SEARCH_VARIANT_FIELD_BOOSTS[search_method]),
            calls[c].search_packages)

\* d1 stands before d2 in a list of hits
Precedes(hits, d1, d2) ==
    \E x, y \in 1..Len(hits) :
        x < y /\ hits[x].docnum = d1 /\ hits[y].docnum = d2

\* C5 as stated: title_boost ranks a document that matches the term in its
\* name above one that matches it only in its columns, column_boost the
\* other way round.
C5_VariantDecidesNameOverColumn ==
    \A c \in Callers :
        SearchDone(c) /\ OneTermQuery(c) =>
            \A p \in NameColumnPairs(c) :
                /\ calls[c].search_method = "title_boost"
                      => HitPos(c, p[1]) < HitPos(c, p[2])
                /\ calls[c].search_method = "column_boost"
                      => HitPos(c, p[2]) < HitPos(c, p[1])

\* the BM25F score of the term in one field of a document, before any boost
FieldRelevance(c, d, f) ==
    TermMilli(ix.docs, d, f, QueryTerm(c), FieldStats(ix.docs, f, QueryTerm(c)))

\* the two documents carry the same tags, and the term's scores in the name
\* of the one and in the columns of the other are less than the factor 6
\* apart (the ratio 3.0 : 0.5 of the boosts of the two variants)
Comparable(c, n, k) ==
    /\ HasTag(n, Out) = HasTag(k, Out)
    /\ TermFreq(ix.docs[n], "tags", Preliminary) = TermFreq(ix.docs[k], "tags", Preliminary)
    /\ 6 * FieldRelevance(c, n, "name") > FieldRelevance(c, k, "columns")
    /\ 6 * FieldRelevance(c, k, "columns") > FieldRelevance(c, n, "name")

\* C5 amended: for two documents with the same tags whose unboosted scores
\* for the term are less than a factor 6 apart, title_boost ranks the one
\* that matches in its name only above the one that matches in its columns
\* only, and column_boost ranks them the other way round, so their order
\* changes between the two variants.
C5_VariantDecidesAmongComparable ==
    \A c \in Callers :
        SearchDone(c) /\ OneTermQuery(c)
              /\ calls[c].search_method \in {"title_boost", "column_boost"} =>
            \A p \in NameColumnPairs(c) :
                Comparable(c, p[1], p[2]) =>
                    /\ Precedes(HitsUnder(c, "title_boost"), p[1], p[2])
                    /\ Precedes(HitsUnder(c, "column_boost"), p[2], p[1])
                    /\ calls[c].hits = HitsUnder(c, calls[c].search_method)

\* a column_boost search that put a columns-only document first although a
\* name-only document with the same tags precedes it in the index
C5_Witness ==
    \E c \in Callers :
        /\ SearchDone(c)
        /\ OneTermQuery(c)
        /\ calls[c].search_method = "column_boost"
        /\ \E p \in NameColumnPairs(c) :
              /\ Comparable(c, p[1], p[2])
              /\ p[1] < p[2]
              /\ calls[c].hits[1].docnum = p[2]
              /\ HitsUnder(c, "title_boost")[1].docnum = p[1]

\* the variants the table of field boosts names
KnownVariants == {"default", "title_boost", "column_boost"}

\* C6: run_search called with a variant name that is not default, title_boost
\* or column_boost fails with an error the caller gets; it returns no result
\* list and leaves the index as it was.
C6_UnknownVariantRaises ==
    \A c \in Callers :
        calls[c].op = "run_search" /\ calls[c].search_method \notin KnownVariants =>
            /\ calls[c].pc \in {"rs_boosts", "raised"}
            /\ calls[c].value = <<>>
            /\ calls[c].hits = <<>>
            /\ calls[c].pc = "raised" => calls[c].raised = "KeyError"
            /\ ix = ix0

\* a call with an unknown variant has raised, on an index that holds documents
\* its query matches
C6_Witness ==
    \E c \in Callers :
        /\ calls[c].op = "run_search"
        /\ calls[c].search_method \notin KnownVariants
        /\ calls[c].pc = "raised"
        /\ calls[c].raised = "KeyError"
        /\ \E d \in 1..Len(ix.docs) :
              UserQueryMatches(ix.docs[d],
                               ParseQuery(calls[c].raw_query,
                                          SEARCH_VARIANT_FIELD_BOOSTS["default"]))

\* the resources, as they were when the index was built, that a returned
\* object is the copy of
SnapshotOf(obj) ==
    {i \in 1..Len(built) : WellFormed(built[i]) /\ AsDict(built[i]) = obj}

\* C7: every document run_search returns is the original_object stored at
\* build time for exactly one input resource, its name is that resource's
\* name at build time, and a change of the resource after the build does not
\* show in it.
C7_ResultsAreBuildTimeSnapshots ==
    \A c \in Callers :
        SearchDone(c) =>
            /\ Len(calls[c].value) = Len(calls[c].hits)
            /\ \A k \in 1..Len(calls[c].value) :
                  LET obj == calls[c].value[k]
                      d == calls[c].hits[k].docnum
                  IN  /\ SnapshotOf(obj) = {d}
                      /\ obj.name = built[d].name
                      /\ obj = ix.docs[d].original_object

\* a search after the rename of a resource returns that resource under the
\* name it had when the index was built
C7_Witness ==
    \E c \in Callers :
        /\ SearchDone(c)
        /\ \E k \in 1..Len(calls[c].value) :
              LET d == calls[c].hits[k].docnum
              IN  /\ resources[d].name # built[d].name
                  /\ calls[c].value[k].name = built[d].name

----------------------------------------------------------------------------
(* Properties of initialize_index *)

RECURSIVE LeadingStripped(_)
\* a name without its leading underscores
LeadingStripped(n) ==
    IF n # <<>> /\ Head(n) = "_" THEN LeadingStripped(Tail(n)) ELSE n

\* the characters of s before its first underscore
UpToUnderscore(s) ==
    LET us == {i \in 1..Len(s) : s[i] = "_"}
    IN  IF us = {} THEN s
        ELSE SubSeq(s, 1, (CHOOSE i \in us : \A j \in us : i <= j) - 1)

\* the tags C8 names for a resource name
ExpectedTags(n) ==
    IF n # <<>> /\ Head(n) = "_"
    THEN <<UpToUnderscore(LeadingStripped(n)), Preliminary>>
    ELSE <<UpToUnderscore(LeadingStripped(n))>>

\* C8: the tags indexed for a resource name n are the first
\* underscore-delimited segment of n without its leading underscores, and
\* preliminary exactly when n starts with an underscore; they depend on n
\* alone.
C8_TagsFromNameAlone ==
    \A d \in 1..Len(writer) :
        LET n == writer[d].name
            expected == ExpectedTags(n)
        IN  /\ writer[d].tags = JoinSpace(expected)
            /\ writer[d].tagsTerms = SelectSeq(expected, LAMBDA t : t # <<>>)
            /\ \A e \in 1..Len(writer) :
                  writer[e].name = n => writer[e].tags = writer[d].tags

\* the index holds a name with leading underscores and one with none, each
\* with the tags of the claim
C8_Witness ==
    /\ ix.valid
    /\ \E d, e \in 1..Len(ix.docs) :
          /\ ix.docs[d].name = <<"_","o","u","t","_","g","e","n">>
          /\ ix.docs[d].tagsTerms = <<Out, Preliminary>>
          /\ ix.docs[e].name = <<"r","a","w","_","g","e","n">>
          /\ ix.docs[e].tagsTerms = <<<<"r","a","w">>>>

\* the resources of the build that lack an attribute initialize_index reads
Malformed == {i \in 1..Len(built) : ~WellFormed(built[i])}

\* C9: initialize_index returns an index that holds exactly one committed
\* document per input resource, or it fails at the first malformed resource
\* and returns no index; an index of only some of the resources is never
\* returned.
C9_AllOrNothing ==
    /\ ix.valid =>
          /\ bpc = "ready"
          /\ Malformed = {}
          /\ Len(ix.docs) = Len(built)
          /\ \A i \in 1..Len(built) :
                /\ ix.docs[i].name = built[i].name
                /\ ix.docs[i].original_object = AsDict(built[i])
    /\ ~ix.valid => ix = NoIndex
    /\ bpc = "failed" =>
          /\ ix = NoIndex
          /\ segment = <<>>
          /\ berr \in Malformed
          /\ \A i \in Malformed : berr <= i
    /\ bpc \in {"commit", "ready"} => Malformed = {} /\ Len(segment) = Len(built)

\* the build failed at the second resource, after the writer took the first
C9_Witness ==
    /\ bpc = "failed"
    /\ berr = 2
    /\ Len(writer) = 1
    /\ ix = NoIndex

----------------------------------------------------------------------------
(* Properties of concurrent calls *)

\* the names of the resources as autocomplete_resource_names reads them
NamesOf(rs) == List([k \in 1..Len(rs) |-> rs[k].name])

\* what a call returns or raises when it runs alone on the index as built
AloneOutcome(c) ==
    IF calls[c].op = "run_search"
    THEN RunSearch(ix0, calls[c].raw_query, calls[c].search_method,
                   calls[c].search_packages, built)
    ELSE [raised |-> "",
          value |-> Autocomplete(NamesOf(built), calls[c].raw_query,
                                 calls[c].limit, calls[c].min_score)]

\* every call that has ended has the outcome of the same call run alone
OutcomesAsAlone ==
    \A c \in Callers :
        calls[c].pc \in Finished =>
            /\ calls[c].raised = AloneOutcome(c).raised
            /\ calls[c].value = AloneOutcome(c).value

\* a step of a call leaves the index and the resources as they were
CallsOnlyRead == bpc = "ready" => ix' = ix /\ resources' = resources

\* C10: once the index is built no call of run_search or
\* autocomplete_resource_names changes the index or the resources, and under
\* every interleaving of the calls of two callers each call, failed ones
\* included, ends with the outcome it has when run alone.
C10_ConcurrentCallsAsAlone == [](OutcomesAsAlone) /\ [][CallsOnlyRead]_vars

\* a search has returned documents while the other caller's autocomplete is
\* in the middle of its loop with names already scored
C10_Witness ==
    \E c, o \in Callers :
        /\ c # o
        /\ SearchDone(c)
        /\ calls[c].value # <<>>
        /\ calls[o].op = "autocomplete_resource_names"
        /\ calls[o].pc = "ac_loop"
        /\ calls[o].i > 1
        /\ calls[o].scored # <<>>

----------------------------------------------------------------------------
(* Properties of run_search: queries the parser rejects *)

\* C11: a raw_query the parser cannot parse is given back to the caller as a
\* "no results / bad query" outcome: the call of run_search returns, it does
\* not end with an exception, and the index is as it was.
C11_BadQueryReturnsNoResults ==
    \A c \in Callers :
        /\ calls[c].op = "run_search"
        /\ calls[c].search_method \in KnownVariants
        /\ calls[c].pc \in Finished
        => /\ calls[c].pc = "done"
           /\ calls[c].raised = ""
           /\ ParseRaises(calls[c].raw_query) => calls[c].value = <<>>
           /\ ix = ix0

----------------------------------------------------------------------------
(* Properties of autocomplete_resource_names *)

\* a call of autocomplete_resource_names that has returned its list
AcDone(c) == calls[c].op = "autocomplete_resource_names" /\ calls[c].pc = "done"

\* the trimmed raw query is empty or is `name:` in any case alone
BlankQuery(raw) ==
    LET t == Strip(raw)
    IN  \/ t = <<>>
        \/ /\ Len(t) = 5
           /\ \A k \in 1..5 : ToLower(t[k]) = NamePrefix[k]

\* C12: autocomplete_resource_names returns the empty list, and does not
\* raise, for every list of resources when the query is empty, whitespace
\* only, or only the `name:` prefix with optional whitespace around it.
C12_BlankQueryGivesNothing ==
    \A c \in Callers :
        /\ calls[c].op = "autocomplete_resource_names"
        /\ BlankQuery(calls[c].raw_query)
        => /\ calls[c].pc \in {"ac_prepare", "done"}
           /\ calls[c].value = <<>>
           /\ calls[c].raised = ""

\* the call with `name:` and blanks returned over a catalog with two names,
\* with a lowest score of 0 that every name reaches
C12_Witness ==
    \E c \in Callers :
        /\ AcDone(c)
        /\ calls[c].raw_query = <<" ","N","a","m","e",":"," ">>
        /\ calls[c].min_score = Frac(0, 1)
        /\ calls[c].limit = 8
        /\ Len(resources) = 2

\* the query of a call as the loop scores it
AcQuery(c) == PrepareQuery(calls[c].raw_query)

\* the names of the resources of the call
AcCandidates == {resources[k].name : k \in 1..Len(resources)}

\* the names whose score reaches the min_score of the call
AcKept(c) ==
    {n \in AcCandidates : FracGe(NameScore(AcQuery(c), n), calls[c].min_score)}

\* name a is listed before name b: the higher score, or the same score and
\* the lesser name
ListedBefore(c, a, b) ==
    LET sa == NameScore(AcQuery(c), a)
        sb == NameScore(AcQuery(c), b)
    IN  \/ FracGt(sa, sb)
        \/ ~FracGt(sb, sa) /\ StrLess(a, b)

\* the names a call returned
AcReturned(c) == {calls[c].value[k] : k \in 1..Len(calls[c].value)}

\* C13: a candidate is kept exactly when its score is at or above min_score;
\* the kept names are returned by descending score, equal scores by ascending
\* name, and the list is the first `limit` of that order (for a negative
\* limit: a shorter beginning of it).
C13_KeptSortedCut ==
    \A c \in Callers :
        AcDone(c) /\ AcQuery(c) # <<>> =>
            LET v == calls[c].value
                kept == AcKept(c)
            IN  /\ AcReturned(c) \subseteq kept
                /\ Cardinality(AcReturned(c)) = Len(v)
                /\ \A k \in 1..(Len(v) - 1) : ListedBefore(c, v[k], v[k + 1])
                /\ \A n \in kept \ AcReturned(c) :
                      \A k \in 1..Len(v) : ListedBefore(c, v[k], n)
                /\ calls[c].limit >= 0 =>
                      Len(v) = IF calls[c].limit < Cardinality(kept)
                               THEN calls[c].limit ELSE Cardinality(kept)
                /\ calls[c].limit < 0 => Len(v) < Cardinality(kept) \/ kept = {}

\* two names score exactly min_score; both are kept, the lesser name is
\* listed first and the limit of 1 cuts the other off
C13_Witness ==
    \E c \in Callers :
        /\ AcDone(c)
        /\ calls[c].limit = 1
        /\ Cardinality(AcKept(c)) = 2
        /\ \A n \in AcKept(c) : NameScore(AcQuery(c), n) = calls[c].min_score
        /\ calls[c].value = <<<<"_","a">>>>

\* C14 as stated: whatever the limit, at most `limit` names are returned.
C14_AtMostLimit ==
    \A c \in Callers : AcDone(c) => Len(calls[c].value) <= calls[c].limit

\* C14 amended: for a limit of 0 or more at most `limit` names are returned;
\* a negative limit returns the kept names without the last -limit of them.
C14_AtMostLimitUnlessNegative ==
    \A c \in Callers :
        AcDone(c) =>
            LET kept == IF AcQuery(c) = <<>> THEN 0 ELSE Cardinality(AcKept(c))
            IN  /\ calls[c].limit >= 0 => Len(calls[c].value) <= calls[c].limit
                /\ calls[c].limit < 0 =>
                      Len(calls[c].value) =
                          IF kept + calls[c].limit > 0 THEN kept + calls[c].limit ELSE 0

\* a limit of 1 cut two kept names to one, and so did a limit of -1
C14_Witness ==
    \E c \in Callers :
        /\ AcDone(c)
        /\ AcQuery(c) # <<>>
        /\ Cardinality(AcKept(c)) = 2
        /\ Len(calls[c].value) = 1
        /\ calls[c].limit = -1

\* the default min_score of autocomplete_resource_names
DefaultMinScore == Frac(9, 20)

\* C15 as stated: when the trimmed, lowercased query equals the lowercased
\* name of a candidate, that candidate is the first suggestion, whatever other
\* candidates there are, for limit >= 1 and the default min_score.
C15_ExactMatchFirst ==
    \A c \in Callers :
        AcDone(c) /\ calls[c].limit >= 1 /\ calls[c].min_score = DefaultMinScore =>
            \A n \in AcCandidates :
                Lower(n) = Lower(Strip(calls[c].raw_query)) =>
                    calls[c].value # <<>> /\ calls[c].value[1] = n

\* the candidates whose lowercased name is the query the loop scores
ExactMatches(c) == {n \in AcCandidates : Lower(n) = AcQuery(c)}

\* C15 amended: when the query, trimmed, lowercased and without its `name:`
\* prefix, equals the lowercased name of some candidate, the first suggestion
\* is such a candidate: of several that differ in case only, the one whose
\* name sorts first.
C15_AnExactMatchFirst ==
    \A c \in Callers :
        /\ AcDone(c) /\ calls[c].limit >= 1 /\ calls[c].min_score = DefaultMinScore
        /\ AcQuery(c) # <<>> /\ ExactMatches(c) # {}
        => /\ calls[c].value # <<>>
           /\ calls[c].value[1] \in ExactMatches(c)
           /\ \A n \in ExactMatches(c) :
                 n = calls[c].value[1] \/ StrLess(calls[c].value[1], n)

\* `gen` is suggested first although a name that contains it comes before it
\* in the list of resources
C15_Witness ==
    \E c \in Callers :
        /\ AcDone(c)
        /\ calls[c].limit = 1
        /\ calls[c].min_score = DefaultMinScore
        /\ AcQuery(c) = <<"g","e","n">>
        /\ Len(resources) = 2
        /\ Contains(resources[1].name, <<"g","e","n">>)
        /\ resources[1].name # <<"g","e","n">>
        /\ resources[2].name = <<"g","e","n">>
        /\ calls[c].value = <<<<"g","e","n">>>>

\* a string without everything but its lowercase letters and digits
Normalized(s) == SelectSeq(s, LAMBDA ch : ch \in LowerLetters \cup Digits)

\* the tokens occur in the name at starting points that go left to right
FitInOrder(tokens, name) ==
    \E at \in [1..Len(tokens) -> 0..Len(name)] :
        /\ \A k \in 1..Len(tokens) :
              /\ at[k] + Len(tokens[k]) <= Len(name)
              /\ Slice(name, at[k], at[k] + Len(tokens[k])) = tokens[k]
        /\ \A k \in 1..(Len(tokens) - 1) : at[k] < at[k + 1]

\* the name holds the query across delimiters: the normalized name contains
\* the normalized query and the name contains the query's tokens in order
AcrossDelimiters(c, n) ==
    /\ Normalized(AcQuery(c)) # <<>>
    /\ Contains(Normalized(Lower(n)), Normalized(AcQuery(c)))
    /\ FitInOrder(TOKEN_RE_findall(AcQuery(c)), Lower(n))

\* the name holds the query in no way: not as it is, not normalized, and not
\* all of its tokens
Unrelated(c, n) ==
    /\ ~Contains(Lower(n), AcQuery(c))
    /\ ~Contains(Normalized(Lower(n)), Normalized(AcQuery(c)))
    /\ \E k \in 1..Len(TOKEN_RE_findall(AcQuery(c))) :
          ~Contains(Lower(n), TOKEN_RE_findall(AcQuery(c))[k])

\* where a name stands in the list a call returned
AcPos(c, n) == CHOOSE k \in 1..Len(calls[c].value) : calls[c].value[k] = n

\* C16: query and name are normalized by joining their runs of letters and
\* digits (`eia 860` and `eia860` give the same), and a candidate whose
\* normalized name contains the normalized query and whose name has the
\* query's tokens in order is ranked strictly above every candidate that
\* contains the query neither way and lacks one of its tokens.
C16_AcrossDelimitersAboveUnrelated ==
    /\ Concat(TOKEN_RE_findall(<<"e","i","a"," ","8","6","0">>))
          = Concat(TOKEN_RE_findall(<<"e","i","a","8","6","0">>))
    /\ \A c \in Callers :
          AcDone(c) /\ AcQuery(c) # <<>> =>
              /\ Concat(TOKEN_RE_findall(AcQuery(c))) = Normalized(AcQuery(c))
              /\ \A n \in AcCandidates :
                    Concat(TOKEN_RE_findall(Lower(n))) = Normalized(Lower(n))
              /\ \A a, b \in AcCandidates :
                    AcrossDelimiters(c, a) /\ Unrelated(c, b) =>
                        /\ FracGt(NameScore(AcQuery(c), a), NameScore(AcQuery(c), b))
                        /\ b \in AcReturned(c) =>
                              /\ a \in AcReturned(c)
                              /\ AcPos(c, a) < AcPos(c, b)

\* `eia 860` puts out_eia860, which does not contain it as typed, before a
\* name that comes first in the list of resources and is returned too
C16_Witness ==
    \E c \in Callers :
        /\ AcDone(c)
        /\ AcQuery(c) = <<"e","i","a"," ","8","6","0">>
        /\ Len(resources) = 2
        /\ Unrelated(c, resources[1].name)
        /\ AcrossDelimiters(c, resources[2].name)
        /\ ~Contains(Lower(resources[2].name), AcQuery(c))
        /\ calls[c].value = <<resources[2].name, resources[1].name>>

\* the tokens occur in the name left to right, each one starting where the
\* one before it has ended or later
FitWithoutOverlap(tokens, name) ==
    \E at \in [1..Len(tokens) -> 0..Len(name)] :
        /\ \A k \in 1..Len(tokens) :
              /\ at[k] + Len(tokens[k]) <= Len(name)
              /\ Slice(name, at[k], at[k] + Len(tokens[k])) = tokens[k]
        /\ \A k \in 1..(Len(tokens) - 1) : at[k] + Len(tokens[k]) <= at[k + 1]

\* two scores are the same number
FracEq(x, y) == x.num * y.den = y.num * x.den

\* the score of a name before the bonus for the order of the tokens: the base
\* score and the share of the query's tokens the name contains
ScoreBeforeOrderBonus(query, name) ==
    LET tokens == TOKEN_RE_findall(query)
        name_lc == Lower(name)
        share == Cardinality({k \in 1..Len(tokens) : Contains(name_lc, tokens[k])})
    IN  FracAdd(BaseScore(query, Concat(tokens), name_lc,
                          Concat(TOKEN_RE_findall(name_lc))),
                Frac(share, Len(tokens)))

\* C17: the bonus of 0.4 is added to a candidate's score exactly when all
\* query tokens are found in the lowercased name in their order as
\* occurrences that do not overlap; tokens that fit only by overlapping, or
\* in another order, get no bonus.
C17_OrderBonusWithoutOverlap ==
    \A c \in Callers :
        calls[c].op = "autocomplete_resource_names"
              /\ TOKEN_RE_findall(calls[c].query) # <<>> =>
            \A k \in 1..Len(calls[c].scored) :
                LET e == calls[c].scored[k]
                    fits == FitWithoutOverlap(TOKEN_RE_findall(calls[c].query),
                                              Lower(e.name))
                IN  FracEq(e.score,
                           FracAdd(ScoreBeforeOrderBonus(calls[c].query, e.name),
                                   IF fits THEN Frac(2, 5) ELSE Frac(0, 1)))

\* the sub-scores that apply to a name: the raw-substring score when the name
\* contains the query, the normalized-containment score when the normalized
\* name contains the non-empty normalized query, the similarity ratio always
SubScores(query, name) ==
    LET name_lc == Lower(name)
        nq == Normalized(query)
        nn == Normalized(name_lc)
    IN  {Ratio(query, name_lc)}
        \cup (IF Contains(name_lc, query)
              THEN {FracAdd(Frac(1, 1), Frac(Len(query), Max(Len(name_lc), 1)))}
              ELSE {})
        \cup (IF nq # <<>> /\ Contains(nn, nq)
              THEN {FracAdd(Frac(19, 20), Frac(Len(nq), Max(Len(nn), 1)))}
              ELSE {})

\* C18: before the token bonuses are added, the score of a candidate is the
\* maximum of the sub-scores that apply to it; when the name contains the
\* query and the normalized name contains the normalized query, the larger
\* of the two containment scores is used.
C18_MaximumOfSubScores ==
    \A c \in Callers :
        calls[c].op = "autocomplete_resource_names" =>
            \A k \in 1..Len(calls[c].scored) :
                LET e == calls[c].scored[k]
                    subs == SubScores(calls[c].query, e.name)
                    best == CHOOSE x \in subs : \A y \in subs : FracGe(x, y)
                IN  FracEq(e.score,
                           FracAdd(best, TokenBonus(TOKEN_RE_findall(calls[c].query),
                                                    Lower(e.name))))

\* the suggestions for "name:" + q, for the resources, limit and min_score of
\* the call c
WithNamePrefix(c) ==
    Autocomplete(NamesOf(resources), NamePrefix \o calls[c].raw_query,
                 calls[c].limit, calls[c].min_score)

\* C19 as stated: for every query q, the suggestions for "name:" + q are the
\* suggestions for q alone.
C19_NamePrefixIgnored ==
    \A c \in Callers : AcDone(c) => calls[c].value = WithNamePrefix(c)

\* C19, restricted: for every query q that, trimmed and lowercased, does not
\* itself start with `name:`, the suggestions for "name:" + q are the
\* suggestions for q alone. (One prefix is stripped, not every one.)
C19_NamePrefixIgnoredOnce ==
    \A c \in Callers :
        AcDone(c) /\ ~StartsWith(Lower(Strip(calls[c].raw_query)), NamePrefix) =>
            calls[c].value = WithNamePrefix(c)

\* a finished call for " Out_Gen " that suggests both names of a catalog at a
\* min_score of 1.5
C19_Witness ==
    \E c \in Callers :
        /\ AcDone(c)
        /\ calls[c].raw_query = <<" ","O","u","t","_","G","e","n"," ">>
        /\ calls[c].min_score = Frac(3, 2)
        /\ Len(calls[c].value) = 2

\* the last call of is_flag_enabled took place in a request
FlagRequest == flag_call.flag_name # "" /\ flag_call.ctx

\* the config default of a flag: False when the config does not name it
ConfigDefault(f) == IF config[f] = Missing THEN PyBool(FALSE) ELSE config[f]

\* C20, the priority order: a call of is_flag_enabled in a request whose query
\* string gives the flag true or false (in any case) returns that value and
\* stores it in the session; without the parameter it returns the session's
\* stored value if there is one, leaving the session as it was; otherwise
\* (and outside of any request) it returns the config default, which is False
\* for a flag the config does not name. (A query string value that says
\* neither true nor false makes the call raise ValueError and leaves the
\* session as it was.)
FlagPriority ==
    LET sid == flag_call'.sid
        f == flag_call'.flag_name
        ctx == flag_call'.ctx
        args == flag_call'.args
    IN  (sid \in SessionIds /\ is_flag_enabled(sid, ctx, args, f)) =>
            IF ctx /\ SaidBy(args[f]) # Missing
            THEN /\ flag_call'.raised = ""
                 /\ flag_call'.value = SaidBy(args[f])
                 /\ session' = [session EXCEPT ![sid][f] = SaidBy(args[f])]
            ELSE IF ctx /\ args[f] = Missing /\ session[sid][f] # Missing
            THEN /\ flag_call'.raised = ""
                 /\ flag_call'.value = session[sid][f]
                 /\ session' = session
            ELSE IF ~ctx \/ args[f] = Missing
            THEN /\ flag_call'.raised = ""
                 /\ flag_call'.value = ConfigDefault(f)
                 /\ session' = session
            ELSE /\ flag_call'.raised = "ValueError"
                 /\ session' = session

\* C20, the consequence: the last request of a session that asked for a flag
\* without giving it in the query string got the v of the latest request of
\* that session with ?flag=v, if there was one, whatever the config default
\* is now.
FlagPersists ==
    (FlagRequest /\ flag_call.args[flag_call.flag_name] = Missing
                 /\ last_set[flag_call.sid][flag_call.flag_name] # Missing)
        => (flag_call.raised = ""
            /\ flag_call.value = last_set[flag_call.sid][flag_call.flag_name])

C20_QueryThenSessionThenConfig == [][FlagPriority]_vars /\ []FlagPersists

\* a request of s1 without the parameter returned True from the session, set
\* by an earlier ?ferc_enabled=true, while the config default is False
C20_Witness ==
    /\ FlagRequest
    /\ flag_call.sid = "s1"
    /\ flag_call.flag_name = "ferc_enabled"
    /\ flag_call.args["ferc_enabled"] = Missing
    /\ last_set["s1"]["ferc_enabled"] = PyBool(TRUE)
    /\ flag_call.value = PyBool(TRUE)
    /\ config["ferc_enabled"] = PyBool(FALSE)

----------------------------------------------------------------------------
(* Properties of the gated routes *)

\* a request of a gated route has been answered
GateDone == gate_call.status # ""

\* the boolean that the decorator's `value` says, if it says one
ExpectedOf(value) ==
    IF Lower(value) = <<"t","r","u","e">> THEN PyBool(TRUE)
    ELSE IF Lower(value) = <<"f","a","l","s","e">> THEN PyBool(FALSE)
    ELSE Missing

\* C21 as stated: the handler of a route under require_feature_flag(flag,
\* value) runs if and only if is_flag_enabled(flag) equals the boolean that
\* `value` coerces to; in every other case the answer is 404 and the handler
\* does not run.
C21_HandlerIffFlagElse404 ==
    GateDone =>
        /\ gate_call.handler_ran <=>
              (gate_call.enabled # Missing
                  /\ gate_call.enabled = ExpectedOf(gate_call.value))
        /\ ~gate_call.handler_ran => gate_call.status = "404"

\* C21, restricted: the handler runs if and only if is_flag_enabled(flag)
\* returns the boolean that `value` coerces to; when it returns the other
\* boolean the answer is 404 and the handler does not run; when the query
\* string gives the flag a value that says neither true nor false, the
\* request ends in ValueError: no handler, and no 404 either.
C21_HandlerIffFlagElse404OrError ==
    GateDone =>
        /\ gate_call.handler_ran <=>
              (gate_call.enabled # Missing
                  /\ gate_call.enabled = ExpectedOf(gate_call.value))
        /\ gate_call.handler_ran => gate_call.status = "200"
        /\ (~gate_call.handler_ran /\ gate_call.enabled # Missing)
              => gate_call.status = "404"
        /\ gate_call.enabled = Missing
              <=> (\/ ExpectedOf(gate_call.value) = Missing
                   \/ /\ gate_call.args[gate_call.flag_name] # Missing
                      /\ SaidBy(gate_call.args[gate_call.flag_name]) = Missing)
        /\ gate_call.enabled = Missing => gate_call.status = "ValueError"

\* a route that wants the flag false was asked by a session whose stored flag
\* is true, without the parameter: 404, the handler did not run
C21_Witness ==
    /\ GateDone
    /\ gate_call.value = <<"f","a","l","s","e">>
    /\ gate_call.args[gate_call.flag_name] = Missing
    /\ gate_call.enabled = PyBool(TRUE)
    /\ gate_call.status = "404"
    /\ ~gate_call.handler_ran
    /\ session[gate_call.sid][gate_call.flag_name] = PyBool(TRUE)

----------------------------------------------------------------------------
(* Properties of _coerce_flag_value *)

\* True, 1 or a case variant of "true"
SaysTrue(v) ==
    \/ v = PyBool(TRUE)
    \/ v = PyInt(1)
    \/ v.t = "str" /\ v.s \in CaseVariants(<<"t","r","u","e">>)

\* False, 0 or a case variant of "false"
SaysFalse(v) ==
    \/ v = PyBool(FALSE)
    \/ v = PyInt(0)
    \/ v.t = "str" /\ v.s \in CaseVariants(<<"f","a","l","s","e">>)

\* C22: _coerce_flag_value returns True for True, 1 and any case variant of
\* "true", False for False, 0 and any case variant of "false", and raises
\* ValueError for every other input: other integers, other strings, values
\* of other types.
C22_CoerceTrueFalseOrValueError ==
    coerce_call.pc = "done" =>
        LET v == coerce_call.input
        IN  IF SaysTrue(v)
            THEN coerce_call.raised = "" /\ coerce_call.value = PyBool(TRUE)
            ELSE IF SaysFalse(v)
            THEN coerce_call.raised = "" /\ coerce_call.value = PyBool(FALSE)
            ELSE coerce_call.raised = "ValueError" /\ coerce_call.value = Missing

\* the call for the string "1" has raised ValueError
C22_Witness ==
    /\ coerce_call.pc = "done"
    /\ coerce_call.input = PyStr(<<"1">>)
    /\ coerce_call.raised = "ValueError"

----------------------------------------------------------------------------
(* Properties of get_variant *)

\* get_variant has been called
VariantDone == variant_call.status # ""

\* the values v that the param gives the feature: the items name:v of the
\* param between its commas
GivenFor(param, feature_name) ==
    IF param = Missing THEN {}
    ELSE LET text == <<",">> \o param.s \o <<",">>
         IN  {v \in UNION {variant_config[f].variants : f \in DOMAIN variant_config}
                     \cup {<<"x">>} :
                 Contains(text, <<",">> \o feature_name \o <<":">> \o v \o <<",">>)}

\* the param is a comma-separated list of name:value pairs: every item
\* between commas holds exactly one colon
WellFormedParam(param) ==
    LET text == <<",">> \o param.s \o <<",">>
        commas == {i \in 1..Len(text) : text[i] = ","}
    IN  \A i \in commas, j \in commas :
            (i < j /\ \A k \in (i + 1)..(j - 1) : text[k] # ",") =>
                Cardinality({k \in (i + 1)..(j - 1) : text[k] = ":"}) = 1

\* C23: for a feature of the config, get_variant returns the variant that
\* the request's `variants` param gives the feature, if it gives one;
\* otherwise the variant a previous request's param set for it in this
\* session; otherwise the configured default. A source that says nothing
\* about the feature is skipped in favour of the next one.
C23_ParamThenSessionThenDefault ==
    (VariantDone /\ variant_call.feature_name \in DOMAIN variant_config) =>
        LET f == variant_call.feature_name
            given == GivenFor(variant_call.param, f)
            valid == given \cap variant_config[f].variants
            silent == variant_call.param = Missing
                         \/ (WellFormedParam(variant_call.param) /\ given = {}
                             /\ ~Contains(<<",">> \o variant_call.param.s,
                                          <<",">> \o f \o <<":">>))
        IN  /\ valid # {} =>
                  variant_call.status = "200" /\ variant_call.value.s \in valid
            /\ silent =>
                  /\ variant_call.status = "200"
                  /\ variant_call.value =
                        IF last_variant[variant_call.sid][f] # Missing
                        THEN last_variant[variant_call.sid][f]
                        ELSE PyStr(variant_config[f].default)

\* the items of the param that name the feature give it one value, and that
\* value is empty or not a variant of the feature
GivesOnlyBad(param, feature_name) ==
    LET text == <<",">> \o param.s \o <<",">>
        key == <<",">> \o feature_name \o <<":">>
    IN  /\ WellFormedParam(param)
        /\ Contains(text, key)
        /\ GivenFor(param, feature_name) \cap variant_config[feature_name].variants = {}

\* the step is a call of get_variant
GetVariantStep ==
    /\ variant_call'.sid \in SessionIds
    /\ get_variant(variant_call'.sid, variant_call'.param, variant_call'.feature_name)

\* the last request, if it had no param, got the variant that the latest
\* request of its session with ?variants=f:v was answered with, if there was
\* one
VariantPersists ==
    (VariantDone /\ variant_call.param = Missing
                 /\ variant_call.feature_name \in DOMAIN variant_config
                 /\ last_variant[variant_call.sid][variant_call.feature_name] # Missing)
        => /\ variant_call.status = "200"
           /\ variant_call.value =
                 last_variant[variant_call.sid][variant_call.feature_name]

\* a request that gives the feature a valid variant is answered with it, and
\* it replaces the session's entry; a request without the param of a session
\* that has set no variant for the feature gets the default; no session but
\* the request's own changes
VariantReplaces ==
    GetVariantStep =>
        LET f == variant_call'.feature_name
            sid == variant_call'.sid
        IN  /\ (variant_call'.param # Missing /\ variant_call'.status = "200") =>
                  /\ variant_call'.value.s \in GivenFor(variant_call'.param, f)
                  /\ session_variants'[sid][f] = variant_call'.value
            /\ (variant_call'.param = Missing /\ f \in DOMAIN variant_config
                   /\ last_variant[sid][f] = Missing) =>
                  /\ variant_call'.status = "200"
                  /\ variant_call'.value = PyStr(variant_config[f].default)
            /\ \A other \in SessionIds \ {sid} :
                  session_variants'[other] = session_variants[other]

\* C24: a variant chosen through the URL persists for that session only:
\* after a request of get_variant(f) with ?variants=f:v, later requests of
\* the session without the param return v, until a later request of the
\* session sets another valid value, which replaces it; another session is
\* unaffected and keeps returning its own stored value or the default.
C24_VariantPersistsPerSession == []VariantPersists /\ [][VariantReplaces]_vars

\* s1 was answered "a" without the param, having set it before, while s2 has
\* stored "b" for the same feature
C24_Witness ==
    /\ VariantDone
    /\ variant_call.sid = "s1"
    /\ variant_call.feature_name = Foo
    /\ variant_call.param = Missing
    /\ variant_call.value = PyStr(<<"a">>)
    /\ last_variant["s1"][Foo] = PyStr(<<"a">>)
    /\ session_variants["s2"][Foo] = PyStr(<<"b">>)

\* C25: get_variant answers with 404 when the feature is not defined in the
\* config, with or without a `variants` param; when the param is not a
\* comma-separated list of name:value pairs; and when the param gives the
\* feature a value that is empty or not in the feature's variants set.
C25_NotFoundCases ==
    VariantDone =>
        LET f == variant_call.feature_name
            param == variant_call.param
        IN  /\ f \notin DOMAIN variant_config => variant_call.status = "404"
            /\ (param # Missing /\ ~WellFormedParam(param)) =>
                  variant_call.status = "404"
            /\ (f \in DOMAIN variant_config /\ param # Missing
                   /\ GivesOnlyBad(param, f)) => variant_call.status = "404"

\* the request ?variants=foo: for the feature foo was answered with 404
C25_Witness ==
    /\ VariantDone
    /\ variant_call.feature_name = Foo
    /\ variant_call.param = PyStr(<<"f","o","o",":">>)
    /\ variant_call.status = "404"

\* C29: a request that get_variant rejects with 404 leaves the session's
\* stored variants unchanged; a successful call writes only the requested
\* feature's entry of session["variants"] and leaves the entries of all other
\* features as they were.
C29_OnlyRequestedEntryWritten ==
    [][GetVariantStep =>
          /\ variant_call'.status = "404" => session_variants' = session_variants
          /\ variant_call'.status = "200" =>
                \A sid \in SessionIds, f \in DOMAIN variant_config :
                    (sid # variant_call'.sid \/ f # variant_call'.feature_name) =>
                        session_variants'[sid][f] = session_variants[sid][f]]_vars

\* a request that set foo to "a" left the session's entry "B" for bar
C29_Witness ==
    /\ VariantDone
    /\ variant_call.feature_name = Foo
    /\ variant_call.param = PyStr(<<"f","o","o",":","a">>)
    /\ variant_call.status = "200"
    /\ session_variants[variant_call.sid][Foo] = PyStr(<<"a">>)
    /\ session_variants[variant_call.sid][Bar] = PyStr(<<"B">>)

\* C30: every entry get_variant has stored in session["variants"] is a
\* non-empty variant of its feature's set, and every value get_variant
\* returns is a member of that set or the feature's default.
C30_StoredValidReturnedValidOrDefault ==
    /\ \A sid \in SessionIds, f \in DOMAIN variant_config :
          session_variants[sid][f] # Missing =>
              /\ session_variants[sid][f].s # <<>>
              /\ session_variants[sid][f].s \in variant_config[f].variants
    /\ (VariantDone /\ variant_call.status = "200") =>
          LET fc == variant_config[variant_call.feature_name]
          IN  variant_call.value.s \in fc.variants \cup {fc.default}

\* a request without the param was answered with a default that is not in
\* the feature's set, by a session that has a stored entry for another feature
C30_Witness ==
    /\ VariantDone
    /\ variant_call.status = "200"
    /\ variant_call.param = Missing
    /\ variant_call.feature_name = Foo
    /\ variant_call.value.s \notin variant_config[Foo].variants
    /\ session_variants[variant_call.sid][Bar] = PyStr(<<"B">>)

----------------------------------------------------------------------------
(* Properties of merge_datapackages *)

\* the names of the descriptors, in order
DescriptorNames(descriptors) == [i \in 1..Len(descriptors) |-> descriptors[i].name]

\* the resources of all packages in order, each name at its first occurrence
KeptFirst(datapackages) ==
    LET all == MergedDescriptors(datapackages)
        first == {i \in 1..Len(all) : \A j \in 1..(i - 1) : all[j].name # all[i].name}
    IN  [i \in first |-> all[i]]

\* C26: merge_datapackages returns one package with the resources of all
\* input packages in their order; of a name that appears more than once only
\* the first occurrence is kept, each later one is skipped with a warning
\* logged, so the merged package never holds two resources of one name.
C26_MergedFirstOccurrencesOnly ==
    merge_call.pc \in {"done", "raised"} =>
        LET all == MergedDescriptors(merge_call.datapackages)
            kept == KeptFirst(merge_call.datapackages)
            value == merge_call.value
        IN  /\ merge_call.pc = "done"
            /\ ~HasDuplicateNames(value)
            /\ Len(value) = Cardinality(DOMAIN kept)
            /\ \A i \in DOMAIN kept :
                  \E k \in 1..Len(value) :
                      /\ value[k] = kept[i]
                      /\ \A j \in DOMAIN kept :
                            j < i => \E m \in 1..(k - 1) : value[m] = kept[j]
            /\ Len(merge_call.warnings) = Len(all) - Cardinality(DOMAIN kept)

----------------------------------------------------------------------------
(* Properties of the privacy policy check *)

\* a request of the login and privacy routes was answered
PrivacyDone == privacy_call.client \in ClientIds

\* the request came from a logged-in user who had not accepted the policy
NeedsConsent == privacy_call.user # Anonymous /\ ~privacy_call.accepted

\* the paths the check names
ExemptPaths == {PrivacyPolicyPath, PrivacySettingsPath, LogoutPath}

\* a path under /static
UnderStatic(path) == StartsWith(path, StaticPrefix \o <<"/">>)

\* the answer is the redirect to the privacy policy page with the requested
\* path and query string as next_url, and no view function ran
BouncedToPrivacyPolicy ==
    /\ privacy_call.status = 302
    /\ privacy_call.location.path = PrivacyPolicyPath
    /\ privacy_call.location.has_next
    /\ privacy_call.location.next_url =
          privacy_call.path \o <<"?">> \o privacy_call.query
    /\ privacy_call.handler = ""

\* C27 as stated: a request of a logged-in user who has not accepted the
\* privacy policy, to any path other than /privacy-policy, /privacy-settings,
\* /logout or a path under /static, is answered with the redirect to the
\* privacy policy carrying the requested path as next_url, and no handler
\* runs; requests of anonymous users and of users who accepted are never
\* redirected by the check.
C27_RedirectedUnlessExemptOrUnderStatic ==
    PrivacyDone =>
        /\ (/\ NeedsConsent
            /\ privacy_call.path \notin ExemptPaths
            /\ ~UnderStatic(privacy_call.path)) => BouncedToPrivacyPolicy
        /\ ~NeedsConsent => ~privacy_call.bounced

\* what the check does: it lets through every path that begins with /static,
\* not only the paths under /static/; to every other path but the three
\* exempt ones a logged-in user who has not accepted is answered with the
\* redirect carrying the path and query string as next_url and no handler
\* runs; anonymous users, users who accepted, and requests to the exempt
\* paths and to paths beginning with /static are never redirected by it.
RedirectedUnlessExemptOrStaticPrefix ==
    PrivacyDone =>
        LET let_through == \/ ~NeedsConsent
                           \/ privacy_call.path \in ExemptPaths
                           \/ StartsWith(privacy_call.path, StaticPrefix)
        IN  /\ ~let_through => BouncedToPrivacyPolicy /\ privacy_call.bounced
            /\ let_through => ~privacy_call.bounced

\* a logged-in user who has not accepted asked for /search?q=x and was sent
\* to the privacy policy
BouncedFromSearch ==
    /\ PrivacyDone
    /\ NeedsConsent
    /\ privacy_call.path = SearchPath
    /\ privacy_call.query # <<>>
    /\ BouncedToPrivacyPolicy

----------------------------------------------------------------------------
(* Properties of privacy_settings and logout *)

\* the last request was the privacy form, posted by a logged-in user
FormPosted ==
    /\ PrivacyDone
    /\ privacy_call.method = "POST"
    /\ privacy_call.path = PrivacySettingsPath
    /\ privacy_call.user # Anonymous

\* the form has the field with the value "on"
Ticked(field) == privacy_call.form[field] = PyStr(<<"o", "n">>)

\* a rejection is stored and answered with the redirect to /logout
RejectionStored ==
    (FormPosted /\ ~Ticked("accept_privacy_policy")) =>
        /\ users[privacy_call.user].accepted_privacy_policy = FALSE
        /\ privacy_call.status = 302
        /\ privacy_call.location.path = LogoutPath
        /\ privacy_call.handler = "privacy_settings"

\* an acceptance stores the three fields, redirects to next_url or else to
\* the privacy policy page, and leaves the user logged in
AcceptanceStored ==
    (FormPosted /\ Ticked("accept_privacy_policy")) =>
        LET user == users[privacy_call.user]
            next_url == privacy_call.form.next_url
            location == privacy_call.location
            client == clients[privacy_call.client]
        IN  /\ user.accepted_privacy_policy = TRUE
            /\ user.do_individual_outreach = Ticked("do_individual_outreach")
            /\ user.send_newsletter = Ticked("send_newsletter")
            /\ privacy_call.status = 302
            /\ next_url = Missing => location.path = PrivacyPolicyPath
            /\ next_url # Missing =>
                  next_url.s = location.path \o <<"?">> \o location.query
            /\ privacy_call.user \in {client.session.user_id, client.remember_token}

\* the browser that follows the redirect of its rejection ends without a
\* user, without keys in its session and without the remember_token cookie
FollowingRejectionLogsOut ==
    (/\ FormPosted
     /\ ~Ticked("accept_privacy_policy")
     /\ privacy_call'.followed_from = PrivacySettingsPath) =>
        LET client == clients'[privacy_call.client]
        IN  /\ privacy_call'.client = privacy_call.client
            /\ privacy_call'.path = LogoutPath
            /\ privacy_call'.handler = "logout"
            /\ client.session = EmptyClientSession
            /\ client.remember_token = Anonymous

\* C28: rejecting the privacy policy logs the user out: after POST
\* /privacy-settings without accept_privacy_policy = "on" the user's
\* accepted_privacy_policy is stored as false and the response redirects to
\* /logout, so a client that follows the redirect ends logged out with its
\* session cleared; with acceptance the three consent fields are stored, the
\* user is redirected to next_url (default: the privacy policy page) and
\* stays logged in.
C28_RejectionLogsOutAcceptanceStays ==
    /\ []RejectionStored
    /\ [][FollowingRejectionLogsOut]_vars
    /\ []AcceptanceStored

\* a logged-in user rejected the policy while consenting to outreach, the
\* browser followed the redirect, and logout ran
C28_Witness ==
    /\ PrivacyDone
    /\ privacy_call.followed_from = PrivacySettingsPath
    /\ privacy_call.path = LogoutPath
    /\ privacy_call.user # Anonymous
    /\ privacy_call.handler = "logout"
    /\ users[privacy_call.user].accepted_privacy_policy = FALSE
    /\ users[privacy_call.user].do_individual_outreach = TRUE
    /\ clients[privacy_call.client] = NoCookies

====
